---------------------------- MODULE Spec2Model ----------------------------
(***************************************************************************)
(* The task deduplication / merge engine of the assistant and the          *)
(* slot-filling chat flow that drives it.                                  *)
(*                                                                         *)
(* Strings are sequences of characters, one TLA+ string per character, so  *)
(* that lengths, substrings, case folding and edit distance are computed   *)
(* as the code computes them.  An accented letter is one character, written*)
(* with a mark after the base letter ("a^" is a-acute, "n~" is n-tilde).   *)
(* A field the code leaves undefined (dueDate, notes, relationships) is    *)
(* the empty sequence: every test the code makes on these fields           *)
(* (!x || x === '', x || [], x?.includes) treats the two alike.            *)
(*                                                                         *)
(* A similarity is the exact fraction [num, den] of 1 - distance / maxLen; *)
(* an information score is kept doubled (notes weigh 0.5 per character).   *)
(***************************************************************************)
EXTENDS Naturals, Integers, Sequences, FiniteSets, TLC

VARIABLES
    reminders,     \* state.reminders of RemindersProvider
    lists,         \* state.lists of RemindersProvider
    pendingTask,   \* useTaskMessaging: pendingTask (NoPending = null)
    isLoading,     \* useTaskMessaging: isLoading
    posted,        \* useTaskMessaging: the messages the last handler run appended
    inflight,      \* handleSendMessage calls suspended at `await fetchTaskFromAPI`
    lastOp,        \* the call the last step made (NoOp = none) and what it returned
    pin,           \* pure-function checks: the inputs drawn by the initial state
    pout           \* pure-function checks: the value the function returned

vars == <<reminders, lists, pendingTask, isLoading, posted, inflight,
          lastOp, pin, pout>>


-----------------------------------------------------------------------------
(* Characters *)

LowerLetters == {"a", "b", "c", "d", "e", "f", "g", "h", "i", "j", "k", "l", "m",
                 "n", "o", "p", "q", "r", "s", "t", "u", "v", "w", "x", "y", "z"}

UpperLetters == {"A", "B", "C", "D", "E", "F", "G", "H", "I", "J", "K", "L", "M",
                 "N", "O", "P", "Q", "R", "S", "T", "U", "V", "W", "X", "Y", "Z"}

Digits == {"0", "1", "2", "3", "4", "5", "6", "7", "8", "9"}

\* the lower-case form of each upper-case letter
LowerOf ==
    "A" :> "a" @@ "B" :> "b" @@ "C" :> "c" @@ "D" :> "d" @@ "E" :> "e" @@ "F" :> "f" @@
    "G" :> "g" @@ "H" :> "h" @@ "I" :> "i" @@ "J" :> "j" @@ "K" :> "k" @@ "L" :> "l" @@
    "M" :> "m" @@ "N" :> "n" @@ "O" :> "o" @@ "P" :> "p" @@ "Q" :> "q" @@ "R" :> "r" @@
    "S" :> "s" @@ "T" :> "t" @@ "U" :> "u" @@ "V" :> "v" @@ "W" :> "w" @@ "X" :> "x" @@
    "Y" :> "y" @@ "Z" :> "z" @@ "A^" :> "a^" @@ "E^" :> "e^" @@ "I^" :> "i^" @@ "O^" :> "o^" @@
    "U^" :> "u^" @@ "N~" :> "n~"

\* String.prototype.toLowerCase, one character
LowerChar(c) == IF c \in DOMAIN LowerOf THEN LowerOf[c] ELSE c

\* .normalize('NFD').replace(/[\u0300-\u036f]/g, ''), one character: the
\* letter is decomposed and its combining mark dropped
Unmarked ==
    "a^" :> "a" @@ "e^" :> "e" @@ "i^" :> "i" @@ "o^" :> "o" @@ "u^" :> "u" @@ "n~" :> "n" @@
    "A^" :> "A" @@ "E^" :> "E" @@ "I^" :> "I" @@ "O^" :> "O" @@ "U^" :> "U" @@ "N~" :> "N"

StripAccent(c) == IF c \in DOMAIN Unmarked THEN Unmarked[c] ELSE c

\* the regular expression classes \w, \s and \d
WordChars == LowerLetters \cup UpperLetters \cup Digits \cup {"_"}
IsWordChar(c) == c \in WordChars
IsSpace(c) == c = " "
IsDigit(c) == c \in Digits

-----------------------------------------------------------------------------
(* Strings *)

\* String.prototype.toLowerCase
ToLowerCase(s) == [i \in 1..Len(s) |-> LowerChar(s[i])]

\* the positions of s, in increasing order
Indices(s) == [i \in 1..Len(s) |-> i]

\* String.prototype.trim: from the first to the last character that is not
\* white space
Trim(s) ==
    LET inked == SelectSeq(Indices(s), LAMBDA i : ~IsSpace(s[i]))
    IN  IF inked = <<>> THEN <<>> ELSE SubSeq(s, inked[1], inked[Len(inked)])

\* .replace(/\s+/g, ' '): every run of white space becomes one space
CollapseSpaces(s) ==
    LET kept == SelectSeq(Indices(s),
                          LAMBDA i : ~(IsSpace(s[i]) /\ i > 1 /\ IsSpace(s[i - 1])))
    IN  [k \in 1..Len(kept) |-> IF IsSpace(s[kept[k]]) THEN " " ELSE s[kept[k]]]

\* String.prototype.includes
Includes(s, sub) ==
    \E i \in 1..(Len(s) + 1) :
        /\ i + Len(sub) - 1 <= Len(s)
        /\ \A k \in 1..Len(sub) : s[i + k - 1] = sub[k]

\* case-insensitive comparison a?.toLowerCase() === b?.toLowerCase()
EqualsIgnoreCase(a, b) == ToLowerCase(a) = ToLowerCase(b)

\* the characters in the order of their UTF-16 code units
CodeOrder ==
    <<" ", "!", "-", "/", "0", "1", "2", "3", "4", "5", "6", "7", "8", "9", ":",
      "A", "B", "C", "D", "E", "F", "G", "H", "I", "J", "K", "L", "M",
      "N", "O", "P", "Q", "R", "S", "T", "U", "V", "W", "X", "Y", "Z", "_",
      "a", "b", "c", "d", "e", "f", "g", "h", "i", "j", "k", "l", "m",
      "n", "o", "p", "q", "r", "s", "t", "u", "v", "w", "x", "y", "z",
      "A^", "E^", "I^", "N~", "O^", "U^", "a^", "e^", "i^", "n~", "o^", "u^">>

CodeOf(c) == CHOOSE k \in 1..Len(CodeOrder) : CodeOrder[k] = c

\* the operator > on two strings: the first code unit that differs decides,
\* and a string is greater than its proper prefixes
StringGreater(a, b) ==
    \E i \in 1..Len(a) :
        /\ \A k \in 1..(i - 1) : k <= Len(b) /\ a[k] = b[k]
        /\ IF i > Len(b) THEN TRUE ELSE CodeOf(a[i]) > CodeOf(b[i])

Min2(a, b) == IF a <= b THEN a ELSE b
Max2(a, b) == IF a >= b THEN a ELSE b

-----------------------------------------------------------------------------
(* taskComparison.ts: text similarity *)

\* normalize('NFD') followed by the removal of the combining marks
Unmark(s) == [i \in 1..Len(s) |-> StripAccent(s[i])]

\* the removal of what is neither a word character nor white space
StripPunctuation(s) == SelectSeq(s, LAMBDA c : IsWordChar(c) \/ IsSpace(c))

\* a normalization that leaves the accents on
normalizeTextMarked(text) ==
    Trim(CollapseSpaces(StripPunctuation(ToLowerCase(text))))

normalizeText(text) ==
    Trim(CollapseSpaces(StripPunctuation(Unmark(ToLowerCase(text)))))

\* one row of the Levenshtein matrix: prev is matrix[i-1] and acc holds
\* matrix[i][0..j-1], so that j is the length of acc; both are indexed from
\* 1, so matrix[i][j] is row[j + 1]
RECURSIVE MatrixRow(_, _, _, _)
MatrixRow(prev, ch, s2, acc) ==
    LET j == Len(acc)
    IN  IF j > Len(s2) THEN acc
        ELSE LET cost == IF ch = s2[j] THEN 0 ELSE 1
                 cell == Min2(Min2(prev[j + 1] + 1, acc[j] + 1), prev[j] + cost)
             IN  MatrixRow(prev, ch, s2, Append(acc, cell))

\* the rows after prev; matrix[i][0] = i, so prev is row prev[1]
RECURSIVE MatrixRows(_, _, _)
MatrixRows(s1, s2, prev) ==
    LET i == prev[1] + 1
    IN  IF i > Len(s1) THEN prev
        ELSE MatrixRows(s1, s2, MatrixRow(prev, s1[i], s2, <<i>>))

Levenshtein(s1, s2) ==
    MatrixRows(s1, s2, [j \in 1..(Len(s2) + 1) |-> j - 1])[Len(s2) + 1]

SimOne == [num |-> 1, den |-> 1]
SimZero == [num |-> 0, den |-> 1]

\* a similarity that divides the distance by the length of the first text
NormalizedSimilarityByFirst(normalized1, normalized2) ==
    LET len1 == Len(normalized1)
        len2 == Len(normalized2)
    IN  IF normalized1 = normalized2 THEN SimOne
        ELSE IF len1 = 0 THEN (IF len2 = 0 THEN SimOne ELSE SimZero)
        ELSE IF len2 = 0 THEN SimZero
        ELSE [num |-> len1 - Levenshtein(normalized1, normalized2), den |-> len1]

\* a similarity that divides the distance by the length of the shorter text
NormalizedSimilarityByShorter(normalized1, normalized2) ==
    LET len1 == Len(normalized1)
        len2 == Len(normalized2)
        minLen == Min2(len1, len2)
    IN  IF normalized1 = normalized2 THEN SimOne
        ELSE IF len1 = 0 THEN (IF len2 = 0 THEN SimOne ELSE SimZero)
        ELSE IF len2 = 0 THEN SimZero
        ELSE [num |-> minLen - Levenshtein(normalized1, normalized2), den |-> minLen]

\* calculateTextSimilarity from its two normalized texts on
NormalizedSimilarity(normalized1, normalized2) ==
    LET len1 == Len(normalized1)
        len2 == Len(normalized2)
        maxLen == Max2(len1, len2)
    IN  IF normalized1 = normalized2 THEN SimOne
        ELSE IF len1 = 0 THEN (IF len2 = 0 THEN SimOne ELSE SimZero)
        ELSE IF len2 = 0 THEN SimZero
        ELSE [num |-> maxLen - Levenshtein(normalized1, normalized2), den |-> maxLen]

calculateTextSimilarity(text1, text2) ==
    NormalizedSimilarity(normalizeText(text1), normalizeText(text2))

\* comparisons of similarities, as fractions
SimGE(a, b) == a.num * b.den >= b.num * a.den
SimGT(a, b) == a.num * b.den > b.num * a.den
SimEQ(a, b) == a.num * b.den = b.num * a.den

DefaultThreshold == [num |-> 85, den |-> 100]
AssigneeThreshold == [num |-> 7, den |-> 10]

-----------------------------------------------------------------------------
(* taskComparison.ts: the matcher *)

Null == [null |-> TRUE]

\* steps 3 and 4 of areTasksSimilar, on the text similarity of step 2
SimilarByText(task1, task2, threshold, textSimilarity) ==
    IF SimGE(textSimilarity, threshold) THEN TRUE
    ELSE IF /\ EqualsIgnoreCase(task1.assignedTo, task2.assignedTo)
            /\ SimGE(textSimilarity, AssigneeThreshold)
         THEN TRUE
         ELSE FALSE

\* a criterion that does not compare the item types
areTasksSimilarAnyType(task1, task2, threshold) ==
    SimilarByText(task1, task2, threshold, calculateTextSimilarity(task1.text, task2.text))

areTasksSimilar(task1, task2, threshold) ==
    IF ~EqualsIgnoreCase(task1.itemType, task2.itemType) THEN FALSE
    ELSE SimilarByText(task1, task2, threshold,
                       calculateTextSimilarity(task1.text, task2.text))

\* the loop of findSimilarTask from array index i (0-based, as in the code);
\* best is {index: bestMatch, task: bestTask, similarity: bestSimilarity}
\* the best match after the test of a task that is not completed, whose
\* text similarity to the candidate is similarity
BestAfter(newTask, task, threshold, i, best, similarity) ==
    IF /\ SimGT(similarity, best.similarity)
       /\ areTasksSimilar(newTask, task, threshold)
    THEN [index |-> i, task |-> task, similarity |-> similarity]
    ELSE best

RECURSIVE FindLoop(_, _, _, _, _)
FindLoop(newTask, existingTasks, threshold, i, best) ==
    IF i >= Len(existingTasks) THEN best
    ELSE IF existingTasks[i + 1].isCompleted
         THEN FindLoop(newTask, existingTasks, threshold, i + 1, best)
         ELSE FindLoop(newTask, existingTasks, threshold, i + 1,
                       BestAfter(newTask, existingTasks[i + 1], threshold, i, best,
                                 calculateTextSimilarity(newTask.text,
                                                         existingTasks[i + 1].text)))

\* a matcher that does not skip the completed tasks
findSimilarTaskAmongAll(newTask, existingTasks, threshold) ==
    FindLoop(newTask,
             [i \in 1..Len(existingTasks) |->
                 [existingTasks[i] EXCEPT !.isCompleted = FALSE]],
             threshold, 0, [index |-> -1, task |-> Null, similarity |-> SimZero])

\* a loop that starts at the second task
findSimilarTaskFromSecond(newTask, existingTasks, threshold) ==
    FindLoop(newTask, existingTasks, threshold, 1,
             [index |-> -1, task |-> Null, similarity |-> SimZero])

findSimilarTask(newTask, existingTasks, threshold) ==
    FindLoop(newTask, existingTasks, threshold, 0,
             [index |-> -1, task |-> Null, similarity |-> SimZero])

-----------------------------------------------------------------------------
(* taskComparison.ts: the information score (doubled) *)

\* the number of white-space runs of s
SpaceRuns(s) ==
    Cardinality({i \in 1..Len(s) : IsSpace(s[i]) /\ (i = 1 \/ ~IsSpace(s[i - 1]))})

\* text.trim().split(/\s+/).length: the split of the empty string is [''],
\* of length 1
WordCount(text) == 1 + SpaceRuns(Trim(text))

\* /\d{1,2}:\d{2}/ matches somewhere in s
HasClockTime(s) ==
    \E i \in 1..Len(s) :
        /\ i + 3 <= Len(s)
        /\ IsDigit(s[i]) /\ s[i + 1] = ":" /\ IsDigit(s[i + 2]) /\ IsDigit(s[i + 3])

\* /[ap]m/i matches somewhere in s
HasMeridiem(s) ==
    \E i \in 1..Len(s) :
        /\ i + 1 <= Len(s)
        /\ LowerChar(s[i]) \in {"a", "p"} /\ LowerChar(s[i + 1]) = "m"

\* /\d{1,2}:\d{2}|[ap]m|[AP]M|\d{1,2}\s*[ap]m/i of calculateInformationScore:
\* under the i flag the third alternative is the second, and a match of the
\* fourth contains a match of the second
ScoreHasTime(date) == HasClockTime(date) \/ HasMeridiem(date)

\* twice the score of the code
calculateInformationScore(task) ==
    LET wordPoints == WordCount(task.text) * 4
        datePoints == IF task.dueDate # <<>>
                      THEN 30 + (IF ScoreHasTime(task.dueDate) THEN 20 ELSE 0)
                      ELSE 0
        assignedPoints == IF task.assignedTo # <<>> THEN 16 ELSE 0
        relationPoints == IF Len(task.relationships) > 0
                          THEN Len(task.relationships) * 10 ELSE 0
        notePoints == IF task.notes # <<>> THEN Len(task.notes) ELSE 0
    IN  wordPoints + datePoints + assignedPoints + relationPoints + notePoints

-----------------------------------------------------------------------------
(* taskComparison.ts: the field rules and the merge *)

shouldUpdateField(existingValue, newValue) ==
    IF newValue = <<>> THEN FALSE
    ELSE IF existingValue = <<>> THEN TRUE
    ELSE IF existingValue # newValue THEN TRUE
    ELSE FALSE

hasTimeInDate(date) ==
    IF date = <<>> THEN FALSE ELSE HasClockTime(date) \/ HasMeridiem(date)

\* a date rule that does not look at the time of day
shouldUpdateDateFieldAnyTime(existingDate, newDate) ==
    shouldUpdateField(existingDate, newDate)

\* newHasTime >= existingHasTime on booleans: false only for false >= true
shouldUpdateDateField(existingDate, newDate) ==
    IF ~shouldUpdateField(existingDate, newDate) THEN FALSE
    ELSE LET existingHasTime == hasTimeInDate(existingDate)
             newHasTime == hasTimeInDate(newDate)
         IN  existingDate = <<>> \/ (newHasTime \/ ~existingHasTime)

\* a Partial<Reminder>: a function from the keys that are set
EmptyUpdates == [f \in {} |-> TRUE]

SetKey(obj, key, value) ==
    [f \in DOMAIN obj \cup {key} |-> IF f = key THEN value ELSE obj[f]]

\* the object spread {...a, ...b}
Spread(a, b) ==
    [f \in DOMAIN a \cup DOMAIN b |-> IF f \in DOMAIN b THEN b[f] ELSE a[f]]

\* each update helper returns whether it changed something and the updates
\* object as it leaves it
\* a text replaced by any other text
updateTextFieldAlways(existingText, newText, updates) ==
    IF newText # existingText
    THEN [changed |-> TRUE, updates |-> SetKey(updates, "text", newText)]
    ELSE [changed |-> FALSE, updates |-> updates]

updateTextField(existingText, newText, updates) ==
    IF Len(newText) > Len(existingText)
    THEN [changed |-> TRUE, updates |-> SetKey(updates, "text", newText)]
    ELSE [changed |-> FALSE, updates |-> updates]

updateDateField(existingDate, newDate, updates) ==
    IF shouldUpdateDateField(existingDate, newDate)
    THEN [changed |-> TRUE, updates |-> SetKey(updates, "dueDate", newDate)]
    ELSE [changed |-> FALSE, updates |-> updates]

updateAssignedToField(existingAssignedTo, newAssignedTo, updates) ==
    IF shouldUpdateField(existingAssignedTo, newAssignedTo)
    THEN [changed |-> TRUE, updates |-> SetKey(updates, "assignedTo", newAssignedTo)]
    ELSE [changed |-> FALSE, updates |-> updates]

\* Array.from(new Set(s)): the first occurrence of each element, in order
RECURSIVE Dedupe(_)
Dedupe(s) ==
    IF s = <<>> THEN <<>>
    ELSE LET front == Dedupe(SubSeq(s, 1, Len(s) - 1))
             last == s[Len(s)]
         IN  IF \E i \in 1..Len(front) : front[i] = last THEN front
             ELSE Append(front, last)

\* a union written without a look at its length
updateRelationshipsAlways(existingRelationships, newPeopleInvolved, updates) ==
    IF Len(newPeopleInvolved) = 0 THEN [changed |-> FALSE, updates |-> updates]
    ELSE [changed |-> TRUE,
          updates |-> SetKey(updates, "relationships",
                             Dedupe(existingRelationships \o newPeopleInvolved))]

updateRelationships(existingRelationships, newPeopleInvolved, updates) ==
    IF Len(newPeopleInvolved) = 0 THEN [changed |-> FALSE, updates |-> updates]
    ELSE LET existing == existingRelationships
             combined == Dedupe(existing \o newPeopleInvolved)
         IN  IF Len(combined) # Len(existing)
             THEN [changed |-> TRUE,
                   updates |-> SetKey(updates, "relationships", combined)]
             ELSE [changed |-> FALSE, updates |-> updates]

\* a merge that leaves a completed task completed
markAsIncompleteNever(isCompleted, updates) ==
    [changed |-> FALSE, updates |-> updates]

markAsIncomplete(isCompleted, updates) ==
    IF isCompleted
    THEN [changed |-> TRUE, updates |-> SetKey(updates, "isCompleted", FALSE)]
    ELSE [changed |-> FALSE, updates |-> updates]

NoReason == [kind |-> "none"]

\* a merge that never looks at the scores
shouldProceedWithMergeAlways(existingScore, newScore) ==
    [shouldProceed |-> TRUE, reason |-> NoReason]

\* the reason quotes the two scores (doubled here)
shouldProceedWithMerge(existingScore, newScore) ==
    IF newScore < existingScore
    THEN [shouldProceed |-> FALSE,
          reason |-> [kind |-> "existing has more information",
                      existingScore |-> existingScore, newScore |-> newScore]]
    ELSE [shouldProceed |-> TRUE, reason |-> NoReason]

applyTaskUpdates(existingTask, newData, updates) ==
    LET u1 == updateTextField(existingTask.text, newData.taskName, updates)
        u2 == updateDateField(existingTask.dueDate, newData.dateToPerform, u1.updates)
        u3 == updateAssignedToField(existingTask.assignedTo, newData.assignedTo, u2.updates)
        u4 == updateRelationships(existingTask.relationships, newData.peopleInvolved,
                                  u3.updates)
        u5 == markAsIncomplete(existingTask.isCompleted, u4.updates)
    IN  [hasChanges |-> u1.changed \/ u2.changed \/ u3.changed \/ u4.changed \/ u5.changed,
         updates |-> u5.updates]

\* what mergeTaskData returns once the updates are applied
MergeApplied(existingScore, newScore, applied) ==
    [updates |-> applied.updates,
     shouldUpdate |-> applied.hasChanges,
     reason |-> IF applied.hasChanges
                THEN [kind |-> "updated with more information",
                      existingScore |-> existingScore, newScore |-> newScore]
                ELSE [kind |-> "no changes needed"]]

\* mergeTaskData from the two information scores on
MergeScored(existingTask, newData, existingScore, newScore, proceed) ==
    IF ~proceed.shouldProceed
    THEN [updates |-> EmptyUpdates, shouldUpdate |-> FALSE, reason |-> proceed.reason]
    ELSE MergeApplied(existingScore, newScore,
                      applyTaskUpdates(existingTask, newData, EmptyUpdates))

\* the two scores of mergeTaskData
ExistingScore(existingTask) ==
    calculateInformationScore([text |-> existingTask.text,
                               dueDate |-> existingTask.dueDate,
                               assignedTo |-> existingTask.assignedTo,
                               relationships |-> existingTask.relationships,
                               notes |-> existingTask.notes])

NewScore(newData) ==
    calculateInformationScore([text |-> newData.taskName,
                               dueDate |-> newData.dateToPerform,
                               assignedTo |-> newData.assignedTo,
                               relationships |-> newData.peopleInvolved,
                               notes |-> <<>>])

mergeTaskData(existingTask, newData) ==
    MergeScored(existingTask, newData, ExistingScore(existingTask), NewScore(newData),
                shouldProceedWithMerge(ExistingScore(existingTask), NewScore(newData)))

-----------------------------------------------------------------------------
(* taskValidation.ts *)

\* a validation that takes a blank date for a date
validateTaskDataUntrimmed(taskData) ==
    LET missingFields ==
            IF /\ \/ ToLowerCase(taskData.itemType) = <<"t", "a", "s", "k">>
                  \/ ToLowerCase(taskData.itemType) = <<"p", "r", "o", "j", "e", "c", "t">>
               /\ taskData.dateToPerform = <<>>
            THEN <<"dateToPerform">>
            ELSE <<>>
    IN  [isValid |-> Len(missingFields) = 0, missingFields |-> missingFields]

\* a validation with the check of the date switched off
validateTaskDataNoDate(taskData) ==
    [isValid |-> TRUE, missingFields |-> <<>>]

\* validateTaskData: the missing fields; isValid is missingFields.length === 0
validateTaskData(taskData) ==
    LET missingFields ==
            IF /\ \/ ToLowerCase(taskData.itemType) = <<"t", "a", "s", "k">>
                  \/ ToLowerCase(taskData.itemType) = <<"p", "r", "o", "j", "e", "c", "t">>
               /\ \/ taskData.dateToPerform = <<>>
                  \/ Trim(taskData.dateToPerform) = <<>>
            THEN <<"dateToPerform">>
            ELSE <<>>
    IN  [isValid |-> Len(missingFields) = 0, missingFields |-> missingFields]

dateIndicators == {
    <<"h", "o", "y">>,
    <<"m", "a", "n~", "a", "n", "a">>,
    <<"p", "a", "s", "a", "d", "o">>,
    <<"l", "u", "n", "e", "s">>,
    <<"m", "a", "r", "t", "e", "s">>,
    <<"m", "i", "e^", "r", "c", "o", "l", "e", "s">>,
    <<"j", "u", "e", "v", "e", "s">>,
    <<"v", "i", "e", "r", "n", "e", "s">>,
    <<"s", "a^", "b", "a", "d", "o">>,
    <<"d", "o", "m", "i", "n", "g", "o">>,
    <<"t", "o", "d", "a", "y">>,
    <<"t", "o", "m", "o", "r", "r", "o", "w">>,
    <<"m", "o", "n", "d", "a", "y">>,
    <<"t", "u", "e", "s", "d", "a", "y">>,
    <<"w", "e", "d", "n", "e", "s", "d", "a", "y">>,
    <<"t", "h", "u", "r", "s", "d", "a", "y">>,
    <<"f", "r", "i", "d", "a", "y">>,
    <<"s", "a", "t", "u", "r", "d", "a", "y">>,
    <<"s", "u", "n", "d", "a", "y">>,
    <<"p", "r", "o^", "x", "i", "m", "o">>,
    <<"p", "r", "o^", "x", "i", "m", "a">>,
    <<"s", "i", "g", "u", "i", "e", "n", "t", "e">>,
    <<"n", "e", "x", "t">>,
    <<"e", "n", "e", "r", "o">>,
    <<"f", "e", "b", "r", "e", "r", "o">>,
    <<"m", "a", "r", "z", "o">>,
    <<"a", "b", "r", "i", "l">>,
    <<"m", "a", "y", "o">>,
    <<"j", "u", "n", "i", "o">>,
    <<"j", "u", "l", "i", "o">>,
    <<"a", "g", "o", "s", "t", "o">>,
    <<"s", "e", "p", "t", "i", "e", "m", "b", "r", "e">>,
    <<"o", "c", "t", "u", "b", "r", "e">>,
    <<"n", "o", "v", "i", "e", "m", "b", "r", "e">>,
    <<"d", "i", "c", "i", "e", "m", "b", "r", "e">>,
    <<"j", "a", "n", "u", "a", "r", "y">>,
    <<"f", "e", "b", "r", "u", "a", "r", "y">>,
    <<"m", "a", "r", "c", "h">>,
    <<"a", "p", "r", "i", "l">>,
    <<"m", "a", "y">>,
    <<"j", "u", "n", "e">>,
    <<"j", "u", "l", "y">>,
    <<"a", "u", "g", "u", "s", "t">>,
    <<"s", "e", "p", "t", "e", "m", "b", "e", "r">>,
    <<"o", "c", "t", "o", "b", "e", "r">>,
    <<"n", "o", "v", "e", "m", "b", "e", "r">>,
    <<"d", "e", "c", "e", "m", "b", "e", "r">>,
    <<"s", "e", "m", "a", "n", "a">>,
    <<"w", "e", "e", "k">>,
    <<"m", "e", "s">>,
    <<"m", "o", "n", "t", "h">>,
    <<"a", "m">>,
    <<"p", "m">>,
    <<":">>,
    <<"a", " ", "l", "a", "s">>,
    <<"a", "t">> }

\* s holds n digits from position i
DigitsAt(s, i, n) == i >= 1 /\ i + n - 1 <= Len(s) /\ \A k \in 0..(n - 1) : IsDigit(s[i + k])

\* s holds n white-space characters from position i
SpacesAt(s, i, n) == i >= 1 /\ i + n - 1 <= Len(s) /\ \A k \in 0..(n - 1) : IsSpace(s[i + k])

CharAt(s, i, c) == i >= 1 /\ i <= Len(s) /\ s[i] = c

\* /\d{1,2}<sep>\d{1,2}<sep>\d{2,4}/ matches somewhere in s: a digit, the
\* separator, one or two digits, the separator, two digits
MatchesDayMonthYear(s, sep) ==
    \E p \in 1..Len(s) :
        /\ s[p] = sep
        /\ DigitsAt(s, p - 1, 1)
        /\ \E k \in {1, 2} :
              DigitsAt(s, p + 1, k) /\ CharAt(s, p + 1 + k, sep) /\ DigitsAt(s, p + 2 + k, 2)

\* /\d{4}-\d{2}-\d{2}/
MatchesIsoDate(s) ==
    \E i \in 1..Len(s) :
        /\ DigitsAt(s, i, 4) /\ CharAt(s, i + 4, "-")
        /\ DigitsAt(s, i + 5, 2) /\ CharAt(s, i + 7, "-") /\ DigitsAt(s, i + 8, 2)

\* /\d{1,2}\s+de\s+\w+/
MatchesDayOfMonth(s) ==
    \E p \in 1..Len(s) : \E a \in 1..Len(s) : \E b \in 1..Len(s) :
        /\ DigitsAt(s, p, 1)
        /\ SpacesAt(s, p + 1, a)
        /\ CharAt(s, p + a + 1, "d") /\ CharAt(s, p + a + 2, "e")
        /\ SpacesAt(s, p + a + 3, b)
        /\ p + a + b + 3 <= Len(s) /\ IsWordChar(s[p + a + b + 3])

matchesDatePatterns(s) ==
    \/ MatchesDayMonthYear(s, "/")
    \/ MatchesDayMonthYear(s, "-")
    \/ MatchesIsoDate(s)
    \/ MatchesDayOfMonth(s)
    \/ HasClockTime(s)

\* taskValidation.ts, the version messageHandlers imports: a message shorter
\* than 50 characters is decided by the indicators alone
seemsLikeDateResponse(message) ==
    LET lowerMessage == Trim(ToLowerCase(message))
    IN  IF Len(message) < 50
        THEN \E indicator \in dateIndicators : Includes(lowerMessage, indicator)
        ELSE matchesDatePatterns(lowerMessage)

\* taskOperations.ts holds a later text of the same module
hasDateIndicators(message) ==
    \E indicator \in dateIndicators : Includes(message, indicator)

\* the version of that text: the patterns are tried on a short message too
seemsLikeDateResponseOperations(message) ==
    LET lowerMessage == Trim(ToLowerCase(message))
    IN  IF Len(message) < 50 /\ hasDateIndicators(lowerMessage) THEN TRUE
        ELSE matchesDatePatterns(lowerMessage)

-----------------------------------------------------------------------------
(* Identifiers.  String(Date.now() + Math.random()) is the millisecond and  *)
(* the fraction Math.random() adds; String(Date.now()) has no fraction,     *)
(* written as fraction 0.  The generated id of a list is read by no         *)
(* operation modelled, which compare list ids with the fixed ids only.      *)

MaxTasks == 2
MaxClock == 1
MaxInflight == 2
MaxLists == 7

\* the values Date.now() can return: it does not fall behind a time already
\* taken for an id
Times(prevReminders) ==
    { now \in 0..MaxClock : \A i \in 1..Len(prevReminders) : prevReminders[i].id.ms <= now }

TimeId(now, frac) == [ms |-> now, frac |-> frac]

\* Math.random(): a fraction in (0, 1) no earlier call has returned; every
\* reminder stays in the array, so the earlier ones are those of the ids
RandomFraction(prevReminders) ==
    CHOOSE f \in 1..(Len(prevReminders) + 1) :
        \A i \in 1..Len(prevReminders) : prevReminders[i].id.frac # f
FixedId(name) == [fixed |-> name]
GeneratedListId == [generated |-> TRUE]

-----------------------------------------------------------------------------
(* taskOperations.ts *)

familyKeywords == {
    <<"f", "a", "m", "i", "l", "y">>,
    <<"f", "a", "m", "i", "l", "i", "a">>,
    <<"m", "o", "m">>,
    <<"d", "a", "d">>,
    <<"s", "i", "s", "t", "e", "r">>,
    <<"b", "r", "o", "t", "h", "e", "r">> }

determineParentId(relationship, itemType) ==
    LET lowerRelationship == ToLowerCase(relationship)
        lowerItemType == ToLowerCase(itemType)
    IN  IF lowerItemType = <<"t", "a", "s", "k">> THEN <<"t", "a", "s", "k">>
        ELSE IF lowerItemType = <<"p", "r", "o", "j", "e", "c", "t">> THEN <<"p", "r", "o", "j", "e", "c", "t">>
        ELSE IF lowerItemType = <<"h", "a", "b", "i", "t">> THEN <<"h", "a", "b", "i", "t">>
        ELSE IF \E keyword \in familyKeywords : Includes(lowerRelationship, keyword)
             THEN <<"f", "a", "m", "i", "l", "y">>
        ELSE <<"a", "l", "l">>

\* [...peopleInvolved, taskCategory].filter(Boolean)
RelationshipsOf(peopleInvolved, taskCategory) ==
    SelectSeq(Append(peopleInvolved, taskCategory), LAMBDA r : r # <<>>)

\* the forEach of createRelationshipLists, from element k of relationships
RECURSIVE PushMissingLists(_, _, _, _)
PushMissingLists(relationships, itemType, updatedLists, k) ==
    IF k > Len(relationships) THEN updatedLists
    ELSE LET relationship == relationships[k]
             exists == \E i \in 1..Len(updatedLists) : updatedLists[i].name = relationship
         IN  IF ~exists
             THEN PushMissingLists(relationships, itemType,
                      Append(updatedLists,
                             [id |-> GeneratedListId,
                              name |-> relationship,
                              count |-> 0,
                              parentId |-> determineParentId(relationship, itemType)]),
                      k + 1)
             ELSE PushMissingLists(relationships, itemType, updatedLists, k + 1)

createRelationshipLists(peopleInvolved, taskCategory, itemType, currentLists) ==
    PushMissingLists(RelationshipsOf(peopleInvolved, taskCategory), itemType, currentLists, 1)

\* lists.find(l => l.id === 'family')?.id || 'all'
DefaultListId(currentLists) ==
    IF \E i \in 1..Len(currentLists) : currentLists[i].id = FixedId("family")
    THEN FixedId("family") ELSE FixedId("all")

createNewTask(taskData, currentReminders, currentLists, now) ==
    LET newReminder ==
            [id |-> TimeId(now, 0),
             text |-> taskData.taskName,
             isCompleted |-> FALSE,
             listId |-> DefaultListId(currentLists),
             dueDate |-> taskData.dateToPerform,
             relationships |-> RelationshipsOf(taskData.peopleInvolved, taskData.taskCategory),
             notes |-> <<>>,
             isFlagged |-> FALSE,
             itemType |-> taskData.itemType,
             assignedTo |-> taskData.assignedTo]
    IN  [action |-> "created",
         taskName |-> taskData.taskName,
         similarity |-> Null,
         reminders |-> Append(currentReminders, newReminder),
         lists |-> createRelationshipLists(taskData.peopleInvolved, taskData.taskCategory,
                                           taskData.itemType, currentLists)]

\* what checkForSimilarTask returns for the result r of findSimilarTask
SimilarTaskResult(r) ==
    [found |-> r.task # Null /\ r.index # -1,
     index |-> r.index, task |-> r.task, similarity |-> r.similarity]

checkForSimilarTask(newTaskData, currentReminders) ==
    SimilarTaskResult(findSimilarTask(newTaskData, currentReminders, DefaultThreshold))

\* a match handled as if there were none
handleSimilarTaskAppending(similarResult, taskData, currentReminders, currentLists, now) ==
    createNewTask(taskData, currentReminders, currentLists, now)

\* handleSimilarTask once mergeTaskData has returned mergeResult
HandleMerged(similarResult, taskData, currentReminders, currentLists, mergeResult) ==
    IF mergeResult.shouldUpdate
    THEN [action |-> "updated",
          taskName |-> similarResult.task.text,
          similarity |-> similarResult.similarity,
          reminders |-> [currentReminders EXCEPT ![similarResult.index + 1] =
                             Spread(similarResult.task, mergeResult.updates)],
          lists |-> createRelationshipLists(taskData.peopleInvolved,
                        taskData.taskCategory, taskData.itemType, currentLists)]
    ELSE [action |-> "kept_existing",
          taskName |-> similarResult.task.text,
          similarity |-> similarResult.similarity,
          reminders |-> currentReminders,
          lists |-> currentLists]

handleSimilarTask(similarResult, taskData, currentReminders, currentLists, now) ==
    IF similarResult.task = Null
    THEN createNewTask(taskData, currentReminders, currentLists, now)
    ELSE HandleMerged(similarResult, taskData, currentReminders, currentLists,
                      mergeTaskData(similarResult.task, taskData))

\* processTaskWithRelationships once checkForSimilarTask has returned
ProcessChecked(similarTaskResult, taskData, currentReminders, currentLists, now) ==
    IF similarTaskResult.found
    THEN handleSimilarTask(similarTaskResult, taskData, currentReminders, currentLists, now)
    ELSE createNewTask(taskData, currentReminders, currentLists, now)

processTaskWithRelationships(taskData, currentReminders, currentLists, now) ==
    ProcessChecked(checkForSimilarTask([text |-> taskData.taskName,
                                        assignedTo |-> taskData.assignedTo,
                                        itemType |-> taskData.itemType], currentReminders),
                   taskData, currentReminders, currentLists, now)

-----------------------------------------------------------------------------
(* RemindersContext.tsx *)

initialLists ==
    << [id |-> FixedId("all"), name |-> <<"A", "l", "l">>, count |-> 0, parentId |-> <<>>],
       [id |-> FixedId("tasks"), name |-> <<"T", "a", "s", "k", "s">>, count |-> 0,
        parentId |-> <<"t", "a", "s", "k">>],
       [id |-> FixedId("projects"), name |-> <<"P", "r", "o", "j", "e", "c", "t", "s">>, count |-> 0,
        parentId |-> <<"p", "r", "o", "j", "e", "c", "t">>],
       [id |-> FixedId("habits"), name |-> <<"H", "a", "b", "i", "t", "s">>, count |-> 0,
        parentId |-> <<"h", "a", "b", "i", "t">>] >>

\* Array.prototype.includes on an array of strings
ArrayIncludes(arr, x) == \E i \in 1..Len(arr) : arr[i] = x

\* the filter updateReminderCounts applies for one list.  No list of the
\* program has the id today, scheduled, flagged or family (the initial lists
\* are the four above and every other id is a number), so those branches are
\* left out.
CountsFor(list, r) ==
    IF list.id = FixedId("all") THEN ~r.isCompleted
    ELSE IF list.id = FixedId("tasks")
    THEN ToLowerCase(r.itemType) = <<"t", "a", "s", "k">> /\ ~r.isCompleted
    ELSE IF list.id = FixedId("projects")
    THEN ToLowerCase(r.itemType) = <<"p", "r", "o", "j", "e", "c", "t">> /\ ~r.isCompleted
    ELSE IF list.id = FixedId("habits")
    THEN ToLowerCase(r.itemType) = <<"h", "a", "b", "i", "t">> /\ ~r.isCompleted
    ELSE ArrayIncludes(r.relationships, list.name) /\ ~r.isCompleted

ReminderCountOf(list, currentReminders) ==
    Cardinality({i \in 1..Len(currentReminders) : CountsFor(list, currentReminders[i])})

\* a recount that does not leave out the completed reminders
updateReminderCountsWithCompleted(prevLists, currentReminders) ==
    [i \in 1..Len(prevLists) |->
        [prevLists[i] EXCEPT !.count =
            Cardinality({ k \in 1..Len(currentReminders) :
                CountsFor(prevLists[i], [currentReminders[k] EXCEPT !.isCompleted = FALSE]) })]]

\* updateReminderCounts, which the effect on state.reminders runs after every
\* change of the reminders
updateReminderCounts(prevLists, currentReminders) ==
    [i \in 1..Len(prevLists) |->
        [prevLists[i] EXCEPT !.count = ReminderCountOf(prevLists[i], currentReminders)]]

addReminder(prevReminders, text, listId, notes, dueDate, now) ==
    Append(prevReminders,
           [id |-> TimeId(now, 0),
            text |-> text,
            isCompleted |-> FALSE,
            listId |-> listId,
            notes |-> notes,
            dueDate |-> dueDate,
            isFlagged |-> FALSE,
            relationships |-> <<>>,
            assignedTo |-> <<>>,
            itemType |-> <<>>])

toggleReminderComplete(prevReminders, reminderId) ==
    [i \in 1..Len(prevReminders) |->
        IF prevReminders[i].id = reminderId
        THEN [prevReminders[i] EXCEPT !.isCompleted = ~prevReminders[i].isCompleted]
        ELSE prevReminders[i]]

\* addList: the id is String(Date.now()), the parentId is left undefined
addList(prevLists, name) ==
    Append(prevLists, [id |-> GeneratedListId, name |-> name, count |-> 0, parentId |-> <<>>])

\* the state updater of addTaskWithRelationships once findSimilarTask has
\* returned found: the result it assigns and the reminders and lists it
\* returns.  On a match it spreads the whole value of mergeTaskData, the
\* object {updates, shouldUpdate, reason}, over the matched task.
UpdaterFound(taskData, prevReminders, prevLists, now, frac, found) ==
    [result |-> IF found.task # Null /\ found.index # -1
                THEN [action |-> "updated", taskName |-> found.task.text,
                      similarity |-> found.similarity]
                ELSE [action |-> "created", taskName |-> taskData.taskName,
                      similarity |-> Null],
     reminders |->
        IF found.task # Null /\ found.index # -1
        THEN [prevReminders EXCEPT ![found.index + 1] =
                 Spread(found.task, mergeTaskData(found.task, taskData))]
        ELSE Append(prevReminders,
                    [id |-> TimeId(now, frac),
                     text |-> taskData.taskName,
                     isCompleted |-> FALSE,
                     listId |-> DefaultListId(prevLists),
                     dueDate |-> taskData.dateToPerform,
                     isFlagged |-> FALSE,
                     relationships |-> taskData.peopleInvolved,
                     notes |-> <<>>,
                     itemType |-> taskData.itemType,
                     assignedTo |-> taskData.assignedTo]),
     lists |->
        IF \E i \in 1..Len(prevLists) :
              ToLowerCase(prevLists[i].name) = ToLowerCase(taskData.assignedTo)
        THEN prevLists
        ELSE Append(prevLists,
                    [id |-> GeneratedListId,
                     name |-> taskData.assignedTo,
                     count |-> 0,
                     parentId |-> ToLowerCase(taskData.itemType)])]

\* the state updater of addTaskWithRelationships: the next reminders and
\* lists, and the result it assigns
addTaskUpdater(taskData, prevReminders, prevLists, now, frac) ==
    UpdaterFound(taskData, prevReminders, prevLists, now, frac,
                 findSimilarTask([text |-> taskData.taskName,
                                  assignedTo |-> taskData.assignedTo,
                                  itemType |-> taskData.itemType],
                                 prevReminders, DefaultThreshold))

\* addTaskWithRelationships returns the variable the updater assigns.  React
\* runs an updater at once only when the provider has no update queued, and
\* otherwise with the next render, after the return: ranNow tells which, and
\* the value returned is then the initial {action: 'created', taskName}.
Returned(taskData, ranNow, u) ==
    [result |-> IF ranNow THEN u.result
                ELSE [action |-> "created", taskName |-> taskData.taskName,
                      similarity |-> Null],
     reminders |-> u.reminders,
     lists |-> u.lists]

addTaskWithRelationships(taskData, prevReminders, prevLists, now, frac, ranNow) ==
    Returned(taskData, ranNow, addTaskUpdater(taskData, prevReminders, prevLists, now, frac))

-----------------------------------------------------------------------------
(* listCounters.ts.  today is new Date().toISOString().split('T')[0], the  *)
(* date of the call as YYYY-MM-DD.                                         *)

sFamily == <<"f", "a", "m", "i", "l", "y">>

\* the family count does not leave out the completed reminders
calculateFamilyCount(currentReminders, allLists) ==
    Cardinality({ i \in 1..Len(currentReminders) :
        \E k \in 1..Len(allLists) :
            /\ allLists[k].parentId = sFamily
            /\ ArrayIncludes(currentReminders[i].relationships, allLists[k].name) })

calculateItemTypeCount(currentReminders, itemType) ==
    Cardinality({ i \in 1..Len(currentReminders) :
        /\ ToLowerCase(currentReminders[i].itemType) = itemType
        /\ ~currentReminders[i].isCompleted })

calculateRelationshipCount(currentReminders, listName) ==
    Cardinality({ i \in 1..Len(currentReminders) :
        /\ ArrayIncludes(currentReminders[i].relationships, listName)
        /\ ~currentReminders[i].isCompleted })

calculateListCount(list, currentReminders, allLists, today) ==
    IF list.id = FixedId("all")
    THEN Cardinality({ i \in 1..Len(currentReminders) : ~currentReminders[i].isCompleted })
    ELSE IF list.id = FixedId("today")
    THEN Cardinality({ i \in 1..Len(currentReminders) :
             currentReminders[i].dueDate = today /\ ~currentReminders[i].isCompleted })
    ELSE IF list.id = FixedId("scheduled")
    THEN Cardinality({ i \in 1..Len(currentReminders) :
             /\ currentReminders[i].dueDate # <<>>
             /\ StringGreater(currentReminders[i].dueDate, today)
             /\ ~currentReminders[i].isCompleted })
    ELSE IF list.id = FixedId("flagged")
    THEN Cardinality({ i \in 1..Len(currentReminders) :
             currentReminders[i].isFlagged /\ ~currentReminders[i].isCompleted })
    ELSE IF list.id = FixedId("family") THEN calculateFamilyCount(currentReminders, allLists)
    ELSE IF list.id = FixedId("tasks") THEN calculateItemTypeCount(currentReminders, <<"t", "a", "s", "k">>)
    ELSE IF list.id = FixedId("projects")
    THEN calculateItemTypeCount(currentReminders, <<"p", "r", "o", "j", "e", "c", "t">>)
    ELSE IF list.id = FixedId("habits") THEN calculateItemTypeCount(currentReminders, <<"h", "a", "b", "i", "t">>)
    ELSE calculateRelationshipCount(currentReminders, list.name)

\* a recount that adds to the count the list has
updateListCountsIncremental(currentLists, currentReminders, today) ==
    [i \in 1..Len(currentLists) |->
        [currentLists[i] EXCEPT !.count =
            currentLists[i].count
               + calculateListCount(currentLists[i], currentReminders, currentLists, today)]]

updateListCounts(currentLists, currentReminders, today) ==
    [i \in 1..Len(currentLists) |->
        [currentLists[i] EXCEPT !.count =
            calculateListCount(currentLists[i], currentReminders, currentLists, today)]]

-----------------------------------------------------------------------------
(* The chat flow: taskMessageProcessor.ts, messageHandlers.ts, ChatBox *)

NoPending == [null |-> TRUE]
NoOp == [op |-> "none"]

UserMessage(text) == [sender |-> "user", text |-> text]
BotMessage(kind) == [sender |-> "bot", kind |-> kind]

\* the message generateTaskResponseMessage builds, by its wording
generateTaskResponseMessage(result) ==
    IF result.action = "updated" THEN BotMessage("updated")
    ELSE IF result.action = "kept_existing" THEN BotMessage("kept_existing")
    ELSE BotMessage("created")

\* the first element of each multi-valued field
extractTaskData(data) ==
    [taskName |-> data.taskName[1],
     peopleInvolved |-> data.peopleInvolved,
     taskCategory |-> data.taskCategory[1],
     dateToPerform |-> data.dateToPerform,
     itemType |-> data.itemType[1],
     assignedTo |-> data.assignedTo]

createPendingTaskObject(taskData, missingFields, originalMessage) ==
    [taskName |-> taskData.taskName,
     peopleInvolved |-> taskData.peopleInvolved,
     taskCategory |-> taskData.taskCategory,
     dateToPerform |-> taskData.dateToPerform,
     itemType |-> taskData.itemType,
     assignedTo |-> taskData.assignedTo,
     missingFields |-> missingFields,
     originalMessage |-> originalMessage]

\* arguments that keep the date of the pending task
PendingTaskDataStale(message, pending) ==
    [taskName |-> pending.taskName,
     peopleInvolved |-> pending.peopleInvolved,
     taskCategory |-> pending.taskCategory,
     dateToPerform |-> pending.dateToPerform,
     itemType |-> pending.itemType,
     assignedTo |-> pending.assignedTo]

\* the arguments handlePendingTaskCompletion passes on
PendingTaskData(message, pending) ==
    [taskName |-> pending.taskName,
     peopleInvolved |-> pending.peopleInvolved,
     taskCategory |-> pending.taskCategory,
     dateToPerform |-> message,
     itemType |-> pending.itemType,
     assignedTo |-> pending.assignedTo]

\* a test that takes every reply for the date that is missing
shouldContinueUnlessPending(message, pending) ==
    ~ArrayIncludes(pending.missingFields, "dateToPerform")

\* the test on which handlePendingTaskCompletion returns
\* {shouldContinue: true} and handleSendMessage goes on to the extraction
shouldContinue(message, pending) ==
    ~seemsLikeDateResponse(message) \/ ~ArrayIncludes(pending.missingFields, "dateToPerform")

\* what handlePendingTaskCompletion returns after its call
Completed(call) ==
    [shouldContinue |-> FALSE,
     responseText |-> generateTaskResponseMessage(call.result),
     call |-> call]

handlePendingTaskCompletion(message, pending, prevReminders, prevLists, now, frac, ranNow) ==
    IF shouldContinue(message, pending)
    THEN [shouldContinue |-> TRUE]
    ELSE Completed(addTaskWithRelationships(PendingTaskData(message, pending),
                                            prevReminders, prevLists, now, frac, ranNow))

-----------------------------------------------------------------------------
(* The inputs the model draws *)

sTask == <<"t", "a", "s", "k">>
sTaskCap == <<"T", "a", "s", "k">>
sProject == <<"p", "r", "o", "j", "e", "c", "t">>
sProjectCap == <<"P", "r", "o", "j", "e", "c", "t">>
sHabit == <<"h", "a", "b", "i", "t">>
nMilk == <<"m", "i", "l", "k">>
nMilkLoud == <<"M", "i", "l", "k", "!">>
nRun == <<"r", "u", "n">>
nBuyMilk == <<"b", "u", "y", " ", "m", "i", "l", "k">>
nBuyMilkLoud == <<"B", "u", "y", " ", "m", "i", "l", "k", "!">>
nBuySilk == <<"b", "u", "y", " ", "s", "i", "l", "k">>
nBuySill == <<"b", "u", "y", " ", "s", "i", "l", "l">>
pBob == <<"B", "o", "b">>
pBobLower == <<"b", "o", "b">>
cHome == <<"h", "o", "m", "e">>
dDay == <<"1", "2", "/", "1", "5">>
dDayTime == <<"1", "2", "/", "1", "5", " ", "7", "p", "m">>
dBlank == <<" ">>
mHoy == <<"h", "o", "y">>
mHola == <<"h", "o", "l", "a">>

Fields(name, people, category, date, type, assignee) ==
    [taskName |-> name, peopleInvolved |-> people, taskCategory |-> category,
     dateToPerform |-> date, itemType |-> type, assignedTo |-> assignee]

\* the body of a successful response of the extraction service
Response(name, people, category, date, type, assignee) ==
    [taskName |-> <<name>>, peopleInvolved |-> people, taskCategory |-> <<category>>,
     dateToPerform |-> date, itemType |-> <<type>>, assignedTo |-> assignee]

\* what the user types
Messages == {mHoy, mHola, dBlank}

\* what the extraction service answers
Responses == {
    Response(nMilk, <<>>, <<>>, <<>>, sTask, <<>>),
    Response(nMilk, <<>>, <<>>, dBlank, sProjectCap, <<>>),
    Response(nMilkLoud, <<pBob>>, cHome, dDayTime, sTaskCap, pBob),
    Response(nRun, <<>>, <<>>, <<>>, sHabit, <<>>) }

\* the field sets processTaskWithRelationships is called with
ProcessInputs == {
    Fields(nBuyMilk, <<>>, <<>>, dDay, sTask, <<>>),
    Fields(nBuySilk, <<pBob>>, cHome, dDayTime, sTaskCap, pBob) }

\* the field sets a component calls addTaskWithRelationships with
AddTaskInputs == {
    Fields(nBuySill, <<>>, <<>>, <<>>, sTask, <<>>) }

\* the reminders added by hand: text, notes, dueDate
ManualReminders == {
    [text |-> nBuyMilk, notes |-> nRun, dueDate |-> <<>>] }

\* the field sets of the calls that synthesize lists
ListInputs == {
    Fields(nRun, <<pBob>>, cHome, <<>>, sHabit, pBobLower),
    Fields(nMilk, <<pBobLower>>, <<>>, <<>>, sHabit, pBob) }

\* the names addList is called with
ListNames == { <<"a", "l", "l">>, cHome }

\* the field sets of the calls that create and merge: names close to each
\* other, a person named twice, a date with and without a time of day
PipelineInputs == {
    Fields(nBuyMilkLoud, <<>>, <<>>, <<>>, sTask, pBob),
    Fields(nBuyMilk, <<>>, <<>>, dDayTime, sTask, pBob),
    Fields(nBuySill, <<pBob, pBob>>, <<>>, dDay, sTaskCap, <<>>) }

\* the field set a component calls addTaskWithRelationships with next to them
PipelineAddInputs == {
    Fields(nBuyMilk, <<>>, <<>>, dDayTime, sTask, pBob) }

FailureKinds == {"network error", "status not ok", "malformed body"}

-----------------------------------------------------------------------------
(* State and steps *)

NoInput == [kind |-> "none"]

Init ==
    /\ reminders = <<>>
    /\ lists = updateReminderCounts(initialLists, <<>>)
    /\ pendingTask = NoPending
    /\ isLoading = FALSE
    /\ posted = <<BotMessage("greeting")>>
    /\ inflight = <<>>
    /\ lastOp = NoOp
    /\ pin = NoInput
    /\ pout = NoInput

\* a state change of the provider followed by the effect on state.reminders
Commit(nextReminders, nextLists) ==
    /\ Len(nextReminders) <= MaxTasks
    /\ reminders' = nextReminders
    /\ lists' = updateReminderCounts(nextLists, nextReminders)

CallRecord(op, taskData, result) == [op |-> op, args |-> taskData, result |-> result]

\* handleSendMessage with a pending task whose date the message gives
SubmitPending(message) ==
    /\ ~isLoading
    /\ Trim(message) # <<>>
    /\ pendingTask # NoPending
    /\ Len(pendingTask.missingFields) > 0
    /\ \E now \in Times(reminders), ranNow \in BOOLEAN :
          \E completion \in {handlePendingTaskCompletion(message, pendingTask, reminders,
                                  lists, now, RandomFraction(reminders), ranNow)} :
              /\ ~completion.shouldContinue
              /\ Commit(completion.call.reminders, completion.call.lists)
              /\ posted' = <<UserMessage(message), completion.responseText>>
              /\ lastOp' = CallRecord("addTaskWithRelationships",
                                      PendingTaskData(message, pendingTask),
                                      completion.call.result)
    /\ pendingTask' = NoPending
    /\ isLoading' = FALSE
    /\ UNCHANGED <<inflight, pin, pout>>

\* a chat input that stays enabled while a call is outstanding
SubmitWhileLoading(message) ==
    /\ Trim(message) # <<>>
    /\ IF pendingTask # NoPending
       THEN Len(pendingTask.missingFields) = 0 \/ shouldContinue(message, pendingTask)
       ELSE TRUE
    /\ Len(inflight) < MaxInflight
    /\ posted' = <<UserMessage(message)>>
    /\ isLoading' = TRUE
    /\ inflight' = Append(inflight, message)
    /\ lastOp' = NoOp
    /\ UNCHANGED <<reminders, lists, pendingTask, pin, pout>>

\* handleSendMessage up to its await in every other case.  ChatSection
\* disables the input and the send button while isLoading and sends no blank
\* message.
Submit(message) ==
    /\ ~isLoading
    /\ Trim(message) # <<>>
    /\ IF pendingTask # NoPending
       THEN Len(pendingTask.missingFields) = 0 \/ shouldContinue(message, pendingTask)
       ELSE TRUE
    /\ Len(inflight) < MaxInflight
    /\ posted' = <<UserMessage(message)>>
    /\ isLoading' = TRUE
    /\ inflight' = Append(inflight, message)
    /\ lastOp' = NoOp
    /\ UNCHANGED <<reminders, lists, pendingTask, pin, pout>>

RemoveAt(s, i) == SubSeq(s, 1, i - 1) \o SubSeq(s, i + 1, Len(s))

\* handleSendMessage from the await on, the extraction having answered with
\* fields that validateTaskData rejects
FetchAsk(i, data) ==
    /\ i \in 1..Len(inflight)
    /\ \E taskData \in {extractTaskData(data)} :
       \E validation \in {validateTaskData(taskData)} :
           /\ ~validation.isValid
           /\ pendingTask' = createPendingTaskObject(taskData, validation.missingFields,
                                                     inflight[i])
    /\ inflight' = RemoveAt(inflight, i)
    /\ posted' = <<BotMessage("question")>>
    /\ lastOp' = CallRecord("validateTaskData", extractTaskData(data),
                            validateTaskData(extractTaskData(data)))
    /\ isLoading' = FALSE
    /\ UNCHANGED <<reminders, lists, pin, pout>>

\* handleSendMessage from the await on, the extraction having answered with
\* fields that validateTaskData accepts
FetchOk(i, data) ==
    /\ i \in 1..Len(inflight)
    /\ \E now \in Times(reminders), ranNow \in BOOLEAN :
          \E taskData \in {extractTaskData(data)} :
          \E call \in {addTaskWithRelationships(taskData, reminders, lists, now,
                                                RandomFraction(reminders), ranNow)} :
              /\ validateTaskData(taskData).isValid
              /\ Commit(call.reminders, call.lists)
              /\ posted' = <<generateTaskResponseMessage(call.result)>>
              /\ lastOp' = CallRecord("addTaskWithRelationships", taskData, call.result)
    /\ inflight' = RemoveAt(inflight, i)
    /\ pendingTask' = NoPending
    /\ isLoading' = FALSE
    /\ UNCHANGED <<pin, pout>>

\* a failure path that clears the pending task as the success path does
FetchFailClearing(i, kind) ==
    /\ i \in 1..Len(inflight)
    /\ kind \in FailureKinds
    /\ inflight' = RemoveAt(inflight, i)
    /\ posted' = <<BotMessage("error")>>
    /\ isLoading' = FALSE
    /\ lastOp' = [op |-> "fetchTaskFromAPI", error |-> kind]
    /\ pendingTask' = NoPending
    /\ UNCHANGED <<reminders, lists, pin, pout>>

\* handleSendMessage from the await on, fetchTaskFromAPI having thrown
FetchFail(i, kind) ==
    /\ i \in 1..Len(inflight)
    /\ kind \in FailureKinds
    /\ inflight' = RemoveAt(inflight, i)
    /\ posted' = <<BotMessage("error")>>
    /\ isLoading' = FALSE
    /\ lastOp' = [op |-> "fetchTaskFromAPI", error |-> kind]
    /\ UNCHANGED <<reminders, lists, pendingTask, pin, pout>>

\* a cancel button that files the pending task as it is
CancelFiling ==
    /\ pendingTask # NoPending
    /\ \E now \in Times(reminders) :
          \E call \in {addTaskWithRelationships(
                           PendingTaskData(pendingTask.dateToPerform, pendingTask),
                           reminders, lists, now, RandomFraction(reminders), TRUE)} :
              Commit(call.reminders, call.lists)
    /\ pendingTask' = NoPending
    /\ lastOp' = NoOp
    /\ UNCHANGED <<isLoading, posted, inflight, pin, pout>>

\* the Cancelar button of the pending banner
Cancel ==
    /\ pendingTask # NoPending
    /\ pendingTask' = NoPending
    /\ lastOp' = NoOp
    /\ UNCHANGED <<reminders, lists, isLoading, posted, inflight, pin, pout>>

Toggle(i) ==
    /\ i \in 1..Len(reminders)
    /\ Commit(toggleReminderComplete(reminders, reminders[i].id), lists)
    /\ lastOp' = NoOp
    /\ UNCHANGED <<pendingTask, isLoading, posted, inflight, pin, pout>>

AddReminder(m) ==
    /\ \E now \in Times(reminders) :
          Commit(addReminder(reminders, m.text, FixedId("all"), m.notes, m.dueDate, now), lists)
    /\ lastOp' = NoOp
    /\ UNCHANGED <<pendingTask, isLoading, posted, inflight, pin, pout>>

\* a call of processTaskWithRelationships on the current state, the state
\* then being replaced by the reminders and lists it returns
Process(taskData) ==
    /\ \E now \in Times(reminders) :
          \E r \in {processTaskWithRelationships(taskData, reminders, lists, now)} :
              /\ Commit(r.reminders, r.lists)
              /\ lastOp' = CallRecord("processTaskWithRelationships", taskData,
                                      [action |-> r.action, taskName |-> r.taskName,
                                       similarity |-> r.similarity])
    /\ UNCHANGED <<pendingTask, isLoading, posted, inflight, pin, pout>>

\* a call of addTaskWithRelationships by a component
AddTask(taskData) ==
    /\ \E now \in Times(reminders), ranNow \in BOOLEAN :
          \E call \in {addTaskWithRelationships(taskData, reminders, lists, now,
                                                RandomFraction(reminders), ranNow)} :
              /\ Commit(call.reminders, call.lists)
              /\ lastOp' = CallRecord("addTaskWithRelationships", taskData, call.result)
    /\ UNCHANGED <<pendingTask, isLoading, posted, inflight, pin, pout>>

\* the assistant: the chat and the checkbox of a reminder
Next ==
    \/ \E message \in Messages : SubmitPending(message)
    \/ \E message \in Messages : Submit(message)
    \/ \E i \in 1..MaxInflight, data \in Responses : FetchAsk(i, data)
    \/ \E i \in 1..MaxInflight, data \in Responses : FetchOk(i, data)
    \/ \E i \in 1..MaxInflight, kind \in FailureKinds : FetchFail(i, kind)
    \/ Cancel
    \/ \E i \in 1..MaxTasks : Toggle(i)

Spec == Init /\ [][Next]_vars

\* the operations on the task collection by themselves, with
\* processTaskWithRelationships, which no component calls, among them
OperationsNext ==
    \/ \E taskData \in ProcessInputs : Process(taskData)
    \/ \E taskData \in AddTaskInputs : AddTask(taskData)
    \/ \E m \in ManualReminders : AddReminder(m)
    \/ \E i \in 1..MaxTasks : Toggle(i)

OperationsSpec == Init /\ [][OperationsNext]_vars

\* a call of addList by a component; the reminders do not change, so the
\* effect that recounts does not run
AddList(name) ==
    /\ Len(lists) < MaxLists
    /\ lists' = addList(lists, name)
    /\ lastOp' = [op |-> "addList", name |-> name]
    /\ UNCHANGED <<reminders, pendingTask, isLoading, posted, inflight, pin, pout>>

\* the operations that add lists
ListsNext ==
    \/ \E taskData \in ListInputs : Process(taskData)
    \/ \E taskData \in ListInputs : AddTask(taskData)
    \/ \E name \in ListNames : AddList(name)

ListsSpec == Init /\ [][ListsNext]_vars

\* the create-or-update operation, in its two versions, and the checkbox
PipelineNext ==
    \/ \E taskData \in PipelineInputs : Process(taskData)
    \/ \E taskData \in PipelineAddInputs : AddTask(taskData)
    \/ \E i \in 1..MaxTasks : Toggle(i)

PipelineSpec == Init /\ [][PipelineNext]_vars

-----------------------------------------------------------------------------
(* The matcher and the merge by themselves: the initial state draws the    *)
(* arguments of one call, the step makes the call.                         *)

MaxExisting == 2

nZzz == <<"z", "z", "z">>
dToday == <<"2", "0", "2", "6", "-", "1", "1", "-", "0", "2">>
dClock == <<"1", "2", "/", "1", "5", " ", "1", "9", ":", "0", "0">>

Reminder(text, dueDate, assignedTo, relationships, notes, itemType, isCompleted) ==
    [id |-> TimeId(0, 0), text |-> text, isCompleted |-> isCompleted,
     listId |-> FixedId("all"), dueDate |-> dueDate, relationships |-> relationships,
     notes |-> notes, isFlagged |-> FALSE, itemType |-> itemType, assignedTo |-> assignedTo]

\* the candidates of findSimilarTask
Candidates ==
    { [text |-> t, assignedTo |-> a, itemType |-> sTaskCap] :
        t \in {nBuyMilk, nBuySill}, a \in {<<>>, pBobLower} }

\* the tasks of the collections findSimilarTask searches: two texts close to
\* the candidates' and one that shares no character with them
PoolTasks ==
    { Reminder(t, <<>>, a, <<>>, <<>>, ty, c) :
        t \in {nBuyMilk, nBuySilk}, a \in {<<>>, pBob}, ty \in {sTask, sHabit},
        c \in BOOLEAN }
    \cup { Reminder(nZzz, <<>>, <<>>, <<>>, <<>>, sTask, c) : c \in BOOLEAN }

Thresholds == {DefaultThreshold, SimZero}

FindInputs ==
    { [kind |-> "find", newTask |-> n, existingTasks |-> e, threshold |-> t] :
        n \in Candidates,
        e \in UNION { [1..k -> PoolTasks] : k \in 0..MaxExisting },
        t \in Thresholds }

\* the existing tasks and the incoming fields of mergeTaskData
MergeTasks ==
    { Reminder(t, d, a, r, n, sTask, c) :
        t \in {nBuyMilk, nBuyMilkLoud}, d \in {<<>>, dDay, dDayTime, dToday},
        a \in {<<>>, pBob},
        r \in {<<>>, <<pBob>>}, n \in {<<>>, nRun}, c \in BOOLEAN }

MergeFields ==
    { Fields(t, p, <<>>, d, sTask, a) :
        t \in {nBuySilk, nRun}, p \in {<<>>, <<pBob>>}, d \in {<<>>, dDay, dDayTime, dClock},
        a \in {<<>>, pBob} }

MergeInputs ==
    { [kind |-> "merge", existingTask |-> e, newData |-> n] :
        e \in MergeTasks, n \in MergeFields }

MaxCounted == 3

dTomorrow == <<"2", "0", "2", "6", "-", "1", "1", "-", "0", "3">>
pMom == <<"M", "o", "m">>

\* the lists updateListCounts is given, each with the count it was left with
CountedLists == {
    [id |-> FixedId("today"), name |-> <<"T", "o", "d", "a", "y">>, count |-> 2, parentId |-> <<>>],
    [id |-> FixedId("scheduled"), name |-> <<"S", "c", "h", "e", "d", "u", "l", "e", "d">>,
     count |-> 0, parentId |-> <<>>],
    [id |-> FixedId("flagged"), name |-> <<"F", "l", "a", "g", "g", "e", "d">>, count |-> 1,
     parentId |-> <<>>],
    [id |-> FixedId("family"), name |-> <<"F", "a", "m", "i", "l", "y">>, count |-> 0,
     parentId |-> <<>>],
    [id |-> FixedId("tasks"), name |-> <<"T", "a", "s", "k", "s">>, count |-> 1,
     parentId |-> sTask],
    [id |-> GeneratedListId, name |-> pMom, count |-> 3, parentId |-> sFamily] }

\* the reminders updateListCounts is given
CountedReminders == {
    [Reminder(nMilk, dToday, <<>>, <<pMom>>, <<>>, sTaskCap, FALSE) EXCEPT !.isFlagged = TRUE],
    [Reminder(nRun, <<>>, <<>>, <<cHome, pMom>>, <<>>, sTask, TRUE) EXCEPT !.isFlagged = TRUE],
    Reminder(nMilk, dTomorrow, <<>>, <<cHome>>, <<>>, sProject, FALSE) }

\* the sequences without repetition of at most n elements of S
RECURSIVE Arrangements(_, _)
Arrangements(S, n) ==
    IF n = 0 THEN {<<>>}
    ELSE Arrangements(S, n - 1)
            \cup UNION { { Append(a, x) : x \in S \ { a[i] : i \in 1..Len(a) } } :
                            a \in { b \in Arrangements(S, n - 1) : Len(b) = n - 1 } }

CountInputs ==
    { [kind |-> "counts", lists |-> l, reminders |-> r, today |-> dToday] :
        l \in Arrangements(CountedLists, MaxCounted),
        r \in Arrangements(CountedReminders, MaxExisting) }

nCafe == <<"c", "a", "f", "e">>
nCafeLoud == <<"C", "a", "f", "e^", "!">>
nCafeSpaced == <<" ", "C", "A", "F", "E", " ", " ">>
nBuyMilkWide == <<"b", "u", "y", " ", " ", "m", "i", "l", "k", ",">>
nBang == <<"!">>
nA == <<"a">>

\* the texts calculateTextSimilarity is given
SimilarityTexts ==
    { <<>>, dBlank, nBang, nA, nZzz, nCafe, nCafeLoud, nCafeSpaced, nMilk, nMilkLoud,
      nBuyMilk, nBuyMilkLoud, nBuyMilkWide, nBuySilk }

SimilarityInputs ==
    { [kind |-> "similarity", text1 |-> a, text2 |-> b] :
        a \in SimilarityTexts, b \in SimilarityTexts }

nComprarLeche == <<"C", "o", "m", "p", "r", "a", "r", " ", "l", "e", "c", "h", "e">>
dEvening == <<"2", "0", "2", "4", "-", "1", "2", "-", "1", "5", " ", "7", "p", "m">>

\* the tasks calculateInformationScore is given
ScoreInputs ==
    { [kind |-> "score",
       task |-> [text |-> t, dueDate |-> d, assignedTo |-> a, relationships |-> r,
                 notes |-> n]] :
        t \in {<<>>, dBlank, nMilk, nBuyMilk, nBuyMilkWide, nComprarLeche},
        d \in {<<>>, dDay, dClock, dEvening},
        a \in {<<>>, pBob},
        r \in {<<>>, <<pBob>>, <<pBob, pMom>>},
        n \in {<<>>, nA, nRun} }

dSlashed == <<"1", "5", "/", "1", "2", "/", "2", "0", "2", "4">>
dDashed == <<"1", "5", "-", "1", "2", "-", "2", "4">>
dDeZeta == <<"3", " ", "d", "e", " ", "z">>
dDeMayo == <<"3", " ", "D", "E", " ", "M", "A", "Y", "O">>
mLong == [i \in 1..50 |-> IF i % 7 = 0 THEN " " ELSE "z"]

\* the messages seemsLikeDateResponse is given: shorter than 50 characters and
\* not, with an indicator or without, of the shape of a date or not
SeemsInputs ==
    { [kind |-> "seems", message |-> m] :
        m \in { <<>>, dBlank, mHoy, mHola, dDay, dToday, dClock, dSlashed, dDashed,
                 dDeZeta, dDeMayo, mLong, mLong \o mHoy, mLong \o dToday,
                 dSlashed \o mLong, mLong \o dDashed, mLong \o dDeZeta,
                 mLong \o dClock, SubSeq(mLong, 1, 39) \o dToday,
                 SubSeq(mLong, 1, 40) \o dToday } }

PureInit ==
    /\ reminders = <<>>
    /\ lists = updateReminderCounts(initialLists, <<>>)
    /\ pendingTask = NoPending
    /\ isLoading = FALSE
    /\ posted = <<BotMessage("greeting")>>
    /\ inflight = <<>>
    /\ lastOp = NoOp
    /\ pin \in FindInputs \cup MergeInputs \cup CountInputs \cup SimilarityInputs
                \cup ScoreInputs \cup SeemsInputs
    /\ pout = NoInput

CallFind ==
    /\ pin.kind = "find"
    /\ pout = NoInput
    /\ pout' = findSimilarTask(pin.newTask, pin.existingTasks, pin.threshold)
    /\ UNCHANGED <<reminders, lists, pendingTask, isLoading, posted, inflight, lastOp, pin>>

CallMerge ==
    /\ pin.kind = "merge"
    /\ pout = NoInput
    /\ pout' = mergeTaskData(pin.existingTask, pin.newData)
    /\ UNCHANGED <<reminders, lists, pendingTask, isLoading, posted, inflight, lastOp, pin>>

CallCounts ==
    /\ pin.kind = "counts"
    /\ pout = NoInput
    /\ pout' = [lists |-> updateListCounts(pin.lists, pin.reminders, pin.today)]
    /\ UNCHANGED <<reminders, lists, pendingTask, isLoading, posted, inflight, lastOp, pin>>

CallSimilarity ==
    /\ pin.kind = "similarity"
    /\ pout = NoInput
    /\ pout' = [similarity |-> calculateTextSimilarity(pin.text1, pin.text2)]
    /\ UNCHANGED <<reminders, lists, pendingTask, isLoading, posted, inflight, lastOp, pin>>

CallScore ==
    /\ pin.kind = "score"
    /\ pout = NoInput
    /\ pout' = [score |-> calculateInformationScore(pin.task)]
    /\ UNCHANGED <<reminders, lists, pendingTask, isLoading, posted, inflight, lastOp, pin>>

\* the two versions of seemsLikeDateResponse on one message
CallSeems ==
    /\ pin.kind = "seems"
    /\ pout = NoInput
    /\ pout' = [validation |-> seemsLikeDateResponse(pin.message),
                operations |-> seemsLikeDateResponseOperations(pin.message)]
    /\ UNCHANGED <<reminders, lists, pendingTask, isLoading, posted, inflight, lastOp, pin>>

PureNext ==
    CallFind \/ CallMerge \/ CallCounts \/ CallSimilarity \/ CallScore \/ CallSeems

PureSpec == PureInit /\ [][PureNext]_vars

-----------------------------------------------------------------------------
(* Properties *)

FindDone == pin.kind = "find" /\ pout # NoInput
MergeDone == pin.kind = "merge" /\ pout # NoInput

\* the information score of incoming fields, computed without notes
FieldsScore(newData) ==
    calculateInformationScore([text |-> newData.taskName,
                               dueDate |-> newData.dateToPerform,
                               assignedTo |-> newData.assignedTo,
                               relationships |-> newData.peopleInvolved,
                               notes |-> <<>>])

\* C1: when the incoming fields score strictly less than the existing task,
\* mergeTaskData returns shouldUpdate = false and an empty updates object, so
\* that the task with the updates applied is the task itself.
C1_NoRegressionMerge ==
    (MergeDone /\ FieldsScore(pin.newData) < calculateInformationScore(pin.existingTask))
        => /\ pout.shouldUpdate = FALSE
           /\ DOMAIN pout.updates = {}
           /\ Spread(pin.existingTask, pout.updates) = pin.existingTask

\* a merge refused although the incoming name, date and assignee all differ
\* from the existing ones and the task is completed
C1_Witness ==
    /\ MergeDone
    /\ FieldsScore(pin.newData) < calculateInformationScore(pin.existingTask)
    /\ shouldUpdateField(pin.existingTask.text, pin.newData.taskName)
    /\ shouldUpdateField(pin.existingTask.dueDate, pin.newData.dateToPerform)
    /\ shouldUpdateField(pin.existingTask.assignedTo, pin.newData.assignedTo)
    /\ pin.existingTask.isCompleted
    /\ pout.shouldUpdate = FALSE

\* the positions (1-based) of the collection of a findSimilarTask call
Positions == 1..Len(pin.existingTasks)

TextSimilarityAt(i) == calculateTextSimilarity(pin.newTask.text, pin.existingTasks[i].text)

\* the two-tier criterion between the candidate and the task at position i
CriterionAt(i) ==
    /\ ToLowerCase(pin.newTask.itemType) = ToLowerCase(pin.existingTasks[i].itemType)
    /\ \/ SimGE(TextSimilarityAt(i), pin.threshold)
       \/ /\ ToLowerCase(pin.newTask.assignedTo) = ToLowerCase(pin.existingTasks[i].assignedTo)
          /\ SimGE(TextSimilarityAt(i), AssigneeThreshold)

\* the positions of the tasks that are not completed and satisfy the criterion
Qualifying == { i \in Positions : ~pin.existingTasks[i].isCompleted /\ CriterionAt(i) }

\* C3: findSimilarTask never returns a completed task, whatever its similarity.
C3_MatchExclusivity ==
    (FindDone /\ pout.task # Null)
        => /\ ~pout.task.isCompleted
           /\ pout.index + 1 \in Positions
           /\ ~pin.existingTasks[pout.index + 1].isCompleted

\* a completed task of similarity 1 and of the candidate's type is passed
\* over: nothing is returned
C3_Witness ==
    /\ FindDone
    /\ \E i \in Positions :
          /\ pin.existingTasks[i].isCompleted
          /\ CriterionAt(i)
          /\ SimEQ(TextSimilarityAt(i), SimOne)
    /\ pout.task = Null

\* C4: a returned task satisfies the two-tier criterion, and a task is
\* returned whenever a task that is not completed satisfies it with a
\* similarity above 0.
C4_TwoTierCriterion ==
    FindDone =>
        /\ pout.task # Null =>
              /\ pout.index + 1 \in Positions
              /\ pout.task = pin.existingTasks[pout.index + 1]
              /\ CriterionAt(pout.index + 1)
        /\ (\E i \in Qualifying : SimGT(TextSimilarityAt(i), SimZero)) => pout.task # Null

\* a task returned by the second tier alone: same assignee up to case and a
\* similarity of at least 0.70 but below the threshold
C4_Witness ==
    /\ FindDone
    /\ pout.task # Null
    /\ ~SimGE(pout.similarity, pin.threshold)
    /\ pin.newTask.assignedTo # pout.task.assignedTo
    /\ pin.newTask.itemType # pout.task.itemType

CalledCreateOrUpdate ==
    lastOp'.op \in {"processTaskWithRelationships", "addTaskWithRelationships"}

MatchBefore ==
    findSimilarTask([text |-> lastOp'.args.taskName,
                     assignedTo |-> lastOp'.args.assignedTo,
                     itemType |-> lastOp'.args.itemType], reminders, DefaultThreshold)

\* C2: when the create-or-update operation is called and the matcher finds a
\* match, nothing is appended: the collection keeps its length and its ids in
\* their order, and only the matched record may change.
C2_NoDuplicateOnMatch ==
    [][CalledCreateOrUpdate
          => \A match \in {MatchBefore} :
                 match.task # Null
                    => /\ Len(reminders') = Len(reminders)
                       /\ \A i \in 1..Len(reminders) :
                             /\ reminders'[i].id = reminders[i].id
                             /\ i # match.index + 1 => reminders'[i] = reminders[i]]_vars

\* a match merged into the first of two records by either operation
C2_Witness ==
    /\ lastOp.op \in {"processTaskWithRelationships", "addTaskWithRelationships"}
    /\ lastOp.result.action = "updated"
    /\ Len(reminders) = 2
    /\ reminders[1].text = lastOp.result.taskName
    /\ reminders[1].dueDate = dDayTime
    /\ reminders[2].text = nBuyMilk

\* C6: the create-or-update operation reports created exactly when the
\* matcher finds no match, updated exactly when it finds one and the merge
\* returns shouldUpdate = true, kept_existing exactly when it finds one and
\* shouldUpdate = false, and then with the similarity and with every task of
\* the collection untouched.
C6_ThreeOutcomes ==
    [][CalledCreateOrUpdate
          => \A match \in {MatchBefore} :
                 IF match.task = Null
                 THEN lastOp'.result.action = "created"
                 ELSE IF mergeTaskData(match.task, lastOp'.args).shouldUpdate
                      THEN lastOp'.result.action = "updated"
                      ELSE /\ lastOp'.result.action = "kept_existing"
                           /\ lastOp'.result.similarity = match.similarity
                           /\ reminders' = reminders]_vars

\* a step of handleSendMessage after its await
Answered == Len(inflight') < Len(inflight)

\* C7: when the extraction call of a submit fails, the submit leaves the
\* tasks, the lists and the pending task as they were, from the sending to
\* the end of the handler, and posts the fallback message.
C7_FailClosedExtraction ==
    [][/\ Len(inflight') > Len(inflight) => UNCHANGED <<reminders, lists, pendingTask>>
       /\ (Answered /\ lastOp'.op = "fetchTaskFromAPI")
             => /\ UNCHANGED <<reminders, lists, pendingTask>>
                /\ posted' = <<BotMessage("error")>>
                /\ isLoading' = FALSE]_vars

\* a failed extraction with a task in the collection and a task pending
C7_Witness ==
    /\ lastOp.op = "fetchTaskFromAPI"
    /\ lastOp.error = "malformed body"
    /\ posted = <<BotMessage("error")>>
    /\ pendingTask # NoPending
    /\ Len(reminders) > 0

\* the extraction result asks for a date: a task or a project without one
NeedsDate(taskData) ==
    /\ ToLowerCase(taskData.itemType) \in {sTask, sProject}
    /\ Trim(taskData.dateToPerform) = <<>>

\* C8: an extraction result of type task or project (in any case) with an
\* empty or blank date creates and merges nothing and becomes the pending
\* task with missingFields = [dateToPerform]; a habit with an empty date goes
\* to the create-or-update operation and no task is pending afterwards.
C8_IdleToAwaitingField ==
    [][(Answered /\ lastOp'.op \in {"validateTaskData", "addTaskWithRelationships"})
          => /\ NeedsDate(lastOp'.args)
                   => /\ lastOp'.op = "validateTaskData"
                      /\ UNCHANGED <<reminders, lists>>
                      /\ pendingTask' # NoPending
                      /\ pendingTask'.missingFields = <<"dateToPerform">>
                      /\ Fields(pendingTask'.taskName, pendingTask'.peopleInvolved,
                                pendingTask'.taskCategory, pendingTask'.dateToPerform,
                                pendingTask'.itemType, pendingTask'.assignedTo) = lastOp'.args
             /\ (ToLowerCase(lastOp'.args.itemType) = sHabit
                    /\ lastOp'.args.dateToPerform = <<>>)
                   => /\ lastOp'.op = "addTaskWithRelationships"
                      /\ pendingTask' = NoPending]_vars

\* a project, so spelt, with a blank date is pending, a task being there
C8_Witness ==
    /\ lastOp.op = "validateTaskData"
    /\ pendingTask # NoPending
    /\ pendingTask.itemType = sProjectCap
    /\ pendingTask.dateToPerform = dBlank
    /\ pendingTask.missingFields = <<"dateToPerform">>
    /\ Len(reminders) > 0

\* a step that sent the message the user typed
Sent ==
    /\ Len(posted') > 0
    /\ posted'[1].sender = "user"
    /\ \/ ~isLoading /\ isLoading'
       \/ lastOp'.op = "addTaskWithRelationships"

Extracted == { extractTaskData(data) : data \in Responses }

\* C10: a cancel empties the pending task and leaves tasks and lists as they
\* are; while no task is pending the create-or-update operation is called
\* only by the answer of an extraction and with the fields of that answer,
\* and a task becomes pending only by such an answer.
C10_Cancel ==
    [][/\ Cancel => (pendingTask' = NoPending /\ UNCHANGED <<reminders, lists>>)
       /\ (pendingTask = NoPending /\ lastOp'.op = "addTaskWithRelationships")
             => (Answered /\ lastOp'.args \in Extracted)
       /\ (pendingTask = NoPending /\ pendingTask' # NoPending)
             => (Answered /\ lastOp'.op = "validateTaskData")]_vars

\* a cancel with a task in the collection, and a pending task cancelled
\* before a later extraction filed a task
C10_Witness ==
    /\ pendingTask = NoPending
    /\ lastOp = NoOp
    /\ posted = <<BotMessage("question")>>
    /\ Len(reminders) > 0

\* C11: at most one extraction call is outstanding; the loading flag is set
\* exactly while one is; a message is sent only while none is; and the
\* create-or-update operation runs only with no other call outstanding.
C11_SingleOutstanding ==
    /\ [](Len(inflight) <= 1 /\ (isLoading <=> Len(inflight) = 1))
    /\ [][/\ Sent => (~isLoading /\ inflight = <<>>)
          /\ Len(inflight') > Len(inflight) => (inflight = <<>> /\ isLoading')
          /\ lastOp'.op = "addTaskWithRelationships" => inflight' = <<>>]_vars

\* a second message on its way to the extraction after the first was
\* answered: a task is filed and another is pending
C11_Witness ==
    /\ Len(inflight) = 1
    /\ isLoading
    /\ pendingTask # NoPending
    /\ Len(reminders) > 0

\* C12: no two tasks of the collection have the same id, and no step changes
\* the id of a task or removes a task.
C12_UniqueStableIds ==
    /\ [](\A i, j \in 1..Len(reminders) : reminders[i].id = reminders[j].id => i = j)
    /\ [][\A i \in 1..Len(reminders) :
             i <= Len(reminders') /\ reminders'[i].id = reminders[i].id]_vars

\* C13: no two lists have names that are equal ignoring case, and no step
\* adds a list whose name equals, ignoring case, the name of a list that was
\* there before.
C13_UniqueListNames ==
    /\ [](\A i, j \in 1..Len(lists) :
             EqualsIgnoreCase(lists[i].name, lists[j].name) => i = j)
    /\ [][\A k \in (Len(lists) + 1)..Len(lists') : \A i \in 1..Len(lists) :
             ~EqualsIgnoreCase(lists'[k].name, lists[i].name)]_vars

\* the names a create-or-update call brings: the people involved, the
\* category and the assignee, the empty ones left out
IncomingNames(args) ==
    { n \in { args.peopleInvolved[k] : k \in 1..Len(args.peopleInvolved) }
              \cup {args.taskCategory, args.assignedTo} : n # <<>> }

\* a list without its count, which every change of the tasks recomputes
Uncounted(list) == [id |-> list.id, name |-> list.name, parentId |-> list.parentId]

\* C14: after a create-or-update call that reports created or updated, every
\* incoming name has a list of that name (in any case), and the lists that
\* were there before are still there, unchanged but for their counts.
C14_LazyListSynthesis ==
    [][(CalledCreateOrUpdate /\ lastOp'.result.action \in {"created", "updated"})
          => /\ \A n \in IncomingNames(lastOp'.args) :
                   \E i \in 1..Len(lists') : EqualsIgnoreCase(lists'[i].name, n)
             /\ Len(lists') >= Len(lists)
             /\ \A i \in 1..Len(lists) : Uncounted(lists'[i]) = Uncounted(lists[i])]_vars

CountsDone == pin.kind = "counts" /\ pout # NoInput

\* the lists of a call in the order p, a permutation of their positions
Reordered(p) == [k \in 1..Len(pin.lists) |-> pin.lists[p[k]]]

\* C15: updateListCounts applied to its own result, with the same reminders
\* on the same day, returns that result; and in whatever order the lists are
\* given, each list is assigned the same count.
C15_CountsIdempotent ==
    CountsDone =>
        /\ updateListCounts(pout.lists, pin.reminders, pin.today) = pout.lists
        /\ \A p \in Permutations(1..Len(pin.lists)) :
              \A reordered \in {updateListCounts(Reordered(p), pin.reminders, pin.today)} :
                  \A k \in 1..Len(pin.lists) : reordered[k] = pout.lists[p[k]]

\* three lists, the family list among them and the list that makes it count
\* after it, every one left with a count that is not the one it had
C15_Witness ==
    /\ CountsDone
    /\ Len(pin.lists) = 3
    /\ pin.lists[1].id = FixedId("family")
    /\ pin.lists[3].parentId = sFamily
    /\ \A k \in 1..3 : pout.lists[k].count # pin.lists[k].count /\ pout.lists[k].count > 0

SimilarityDone == pin.kind = "similarity" /\ pout # NoInput

\* C16: calculateTextSimilarity returns the same value for (a, b) and (b, a).
C16_Symmetry ==
    SimilarityDone => pout.similarity = calculateTextSimilarity(pin.text2, pin.text1)

\* two texts of different lengths, neither similarity 0 nor 1
C16_Witness ==
    /\ SimilarityDone
    /\ Len(normalizeText(pin.text1)) < Len(normalizeText(pin.text2))
    /\ SimGT(pout.similarity, SimZero)
    /\ SimGT(SimOne, pout.similarity)

\* C17: the similarity lies in [0, 1], the edit distance of the normalized
\* texts lying between 0 and the length of the longer one; it is 1 when both
\* texts normalize to the empty string and 0 when exactly one does.
C17_Bounded ==
    SimilarityDone =>
        \A n1 \in {normalizeText(pin.text1)} : \A n2 \in {normalizeText(pin.text2)} :
            /\ pout.similarity.den > 0
            /\ 0 <= pout.similarity.num
            /\ pout.similarity.num <= pout.similarity.den
            /\ \A distance \in {Levenshtein(n1, n2)} :
                  /\ 0 <= distance
                  /\ distance <= Max2(Len(n1), Len(n2))
                  /\ (n1 # <<>> /\ n2 # <<>>)
                        => SimEQ(pout.similarity,
                                 [num |-> Max2(Len(n1), Len(n2)) - distance,
                                  den |-> Max2(Len(n1), Len(n2))])
            /\ (n1 = <<>> /\ n2 = <<>>) => pout.similarity = SimOne
            /\ ((n1 = <<>>) # (n2 = <<>>)) => pout.similarity = SimZero

\* a text of punctuation alone against a text with letters
C17_Witness ==
    /\ SimilarityDone
    /\ pin.text1 = nBang
    /\ normalizeText(pin.text2) # <<>>
    /\ pout.similarity = SimZero

\* texts that are the same but for case, accents, punctuation and extra
\* white space
TextFamilies ==
    { {nCafe, nCafeLoud, nCafeSpaced},
      {nBuyMilk, nBuyMilkLoud, nBuyMilkWide},
      {nMilk, nMilkLoud},
      {<<>>, dBlank, nBang} }

\* C18: the similarity of a text to itself is 1; it is 1 for two texts that
\* normalize to the same text, so for two that differ only in case, accents,
\* punctuation or extra white space; and it is 1 for no other two texts.
C18_Identity ==
    SimilarityDone =>
        /\ pin.text1 = pin.text2 => pout.similarity = SimOne
        /\ SimEQ(pout.similarity, SimOne)
              <=> normalizeText(pin.text1) = normalizeText(pin.text2)
        /\ SimEQ(pout.similarity, SimOne)
              <=> \E family \in TextFamilies : {pin.text1, pin.text2} \subseteq family
                     \/ pin.text1 = pin.text2

\* an accented, capitalized text with punctuation against the same text in
\* capitals with spaces around it
C18_Witness ==
    /\ SimilarityDone
    /\ pin.text1 = nCafeLoud
    /\ pin.text2 = nCafeSpaced
    /\ pout.similarity = SimOne

\* the keys of a PendingTask
PendingKeys ==
    {"taskName", "peopleInvolved", "taskCategory", "dateToPerform", "itemType",
     "assignedTo", "missingFields", "originalMessage"}

\* C19: the pending task is one slot, empty or holding one task.  A message
\* that does not look like a date, sent while a task is pending, files
\* nothing and leaves the pending task: it goes to the extraction.  The
\* answer then files a task made of the extracted fields alone, or makes them
\* the pending task in place of the old one.
C19_NonDateWhilePending ==
    /\ [](pendingTask = NoPending \/ DOMAIN pendingTask = PendingKeys)
    /\ [][/\ (pendingTask # NoPending /\ Sent /\ ~seemsLikeDateResponse(posted'[1].text))
                => /\ lastOp' = NoOp
                   /\ UNCHANGED <<reminders, lists, pendingTask>>
                   /\ inflight' = Append(inflight, posted'[1].text)
                   /\ isLoading'
          /\ (pendingTask # NoPending /\ Answered
                 /\ lastOp'.op = "addTaskWithRelationships")
                => /\ lastOp'.args \in Extracted
                   /\ \E now \in Times(reminders) :
                         \E call \in {addTaskWithRelationships(lastOp'.args, reminders, lists,
                                           now, RandomFraction(reminders), TRUE)} :
                             /\ reminders' = call.reminders
                             /\ lists' = updateReminderCounts(call.lists, call.reminders)
                   /\ pendingTask' = NoPending
          /\ (pendingTask # NoPending /\ Answered /\ lastOp'.op = "validateTaskData")
                => /\ lastOp'.args \in Extracted
                   /\ UNCHANGED <<reminders, lists>>
                   /\ pendingTask' = createPendingTaskObject(lastOp'.args, <<"dateToPerform">>,
                                                             inflight[1])]_vars

\* a greeting on its way to the extraction while a task is pending and
\* another is filed
C19_Witness ==
    /\ pendingTask # NoPending
    /\ inflight = <<mHola>>
    /\ posted = <<UserMessage(mHola)>>
    /\ Len(reminders) > 0

\* the tasks a list stands for: all of them, those of an item type, or those
\* whose relationships hold the name of the list
ListPredicate(list, r) ==
    CASE list.id = FixedId("all") -> TRUE
      [] list.id = FixedId("tasks") -> ToLowerCase(r.itemType) = sTask
      [] list.id = FixedId("projects") -> ToLowerCase(r.itemType) = sProject
      [] list.id = FixedId("habits") -> ToLowerCase(r.itemType) = sHabit
      [] OTHER -> \E k \in 1..Len(r.relationships) : r.relationships[k] = list.name

ExpectedCount(list, tasks) ==
    Cardinality({ i \in 1..Len(tasks) : ~tasks[i].isCompleted /\ ListPredicate(list, tasks[i]) })

\* C20: after a step that creates, merges, toggles or adds a task, the count
\* of every list is the number of the tasks, not completed, that the list
\* stands for.
C20_CountsMatchPredicates ==
    [][(reminders' # reminders \/ CalledCreateOrUpdate)
          => \A i \in 1..Len(lists') : lists'[i].count = ExpectedCount(lists'[i], reminders')]_vars

\* a task of two relationships, each with its list, next to a task added by
\* hand and completed
C20_Witness ==
    /\ Len(reminders) = 2
    /\ \E i \in 1..2 : reminders[i].isCompleted /\ reminders[i].relationships = <<>>
    /\ \E i \in 1..2 : ~reminders[i].isCompleted /\ Len(reminders[i].relationships) = 2
    /\ lists[1].count = 1
    /\ Cardinality({ k \in 1..Len(lists) : lists[k].id = GeneratedListId /\ lists[k].count = 1 }) = 2

ScoreDone == pin.kind = "score" /\ pout # NoInput

\* the number of words of a text: its maximal runs of characters other than
\* white space
Words(text) ==
    Cardinality({i \in 1..Len(text) : ~IsSpace(text[i]) /\ (i = 1 \/ IsSpace(text[i - 1]))})

\* twice the score the rules give: 2 per word, 15 for a date and 10 more for
\* a time of day, 8 for an assignee, 5 per relationship, 0.5 per character of
\* the notes
RuleScore(task) ==
    4 * Words(task.text)
    + (IF task.dueDate # <<>> THEN 30 ELSE 0)
    + (IF task.dueDate # <<>> /\ (HasClockTime(task.dueDate) \/ HasMeridiem(task.dueDate))
       THEN 20 ELSE 0)
    + (IF task.assignedTo # <<>> THEN 16 ELSE 0)
    + 10 * Len(task.relationships)
    + Len(task.notes)

Scenario2Existing ==
    [text |-> nComprarLeche, dueDate |-> <<>>, assignedTo |-> <<>>, relationships |-> <<>>,
     notes |-> <<>>]

Scenario2New ==
    [text |-> nComprarLeche, dueDate |-> dEvening, assignedTo |-> pBob,
     relationships |-> <<pBob>>, notes |-> <<>>]

\* C21: calculateInformationScore(task) is 2 per word of the text, plus 15 for a
\* non-empty dueDate and 10 more when it holds a time of day, plus 8 for a
\* non-empty assignedTo, plus 5 per relationship, plus 0.5 per character of the
\* notes (all doubled here); a text without words contributes 0, and the two
\* tasks of Scenario 2 score 4 and 42.
C21_ScoreFormula ==
    ScoreDone =>
        /\ pout.score = RuleScore(pin.task)
        /\ pin.task = Scenario2Existing => pout.score = 2 * 4
        /\ pin.task = Scenario2New => pout.score = 2 * 42

\* the part of C21 the code satisfies: the formula on every text that holds a word
C21_ScoreOfWords ==
    (ScoreDone /\ Words(pin.task.text) > 0) =>
        /\ pout.score = RuleScore(pin.task)
        /\ pin.task = Scenario2Existing => pout.score = 2 * 4
        /\ pin.task = Scenario2New => pout.score = 2 * 42

\* the merge of the call went past the comparison of the scores
MergeKept == MergeDone /\ NewScore(pin.newData) >= ExistingScore(pin.existingTask)

TimeOfDay(date) == HasClockTime(date) \/ HasMeridiem(date)

DateReplaced == "dueDate" \in DOMAIN pout.updates

\* C22: in a merge that is not discarded, dueDate is replaced by the new value
\* exactly when the existing value is empty and the new one is not, or the new
\* non-empty value differs from the existing one and has a time of day whenever
\* the existing one has; a dueDate with a time of day is never replaced by one
\* without.
C22_DateRule ==
    MergeKept =>
        /\ DateReplaced <=>
              \/ pin.existingTask.dueDate = <<>> /\ pin.newData.dateToPerform # <<>>
              \/ /\ pin.newData.dateToPerform # <<>>
                 /\ pin.newData.dateToPerform # pin.existingTask.dueDate
                 /\ TimeOfDay(pin.existingTask.dueDate) => TimeOfDay(pin.newData.dateToPerform)
        /\ DateReplaced => pout.updates.dueDate = pin.newData.dateToPerform
        /\ (DateReplaced /\ TimeOfDay(pin.existingTask.dueDate))
              => TimeOfDay(pout.updates.dueDate)
        /\ ~DateReplaced =>
              Spread(pin.existingTask, pout.updates).dueDate = pin.existingTask.dueDate

\* a merge that is kept although the incoming date has no time of day and the
\* existing one has: the date stays
C22_Witness ==
    /\ MergeKept
    /\ pout.shouldUpdate
    /\ pin.existingTask.dueDate = dDayTime
    /\ pin.newData.dateToPerform = dDay
    /\ ~DateReplaced

NoRepeats(s) == \A i, j \in 1..Len(s) : s[i] = s[j] => i = j

Names(s) == { s[i] : i \in 1..Len(s) }

\* C23: relationships are duplicate-free on every write: no task of the
\* collection, created or merged, names a relationship twice; a merge makes the
\* relationships of the matched task the existing names followed by the new
\* ones, each once, and writes them only when that union has more names than
\* the existing set.
C23_RelationshipsUnique ==
    /\ [](\A i \in 1..Len(reminders) : NoRepeats(reminders[i].relationships))
    /\ [][lastOp'.op = "processTaskWithRelationships"
          => \A match \in {MatchBefore} :
                (match.task # Null /\ lastOp'.result.action = "updated")
                  => \A k \in {match.index + 1} :
                        IF Cardinality(Names(reminders[k].relationships)
                                         \cup Names(lastOp'.args.peopleInvolved))
                              > Cardinality(Names(reminders[k].relationships))
                        THEN /\ NoRepeats(reminders'[k].relationships)
                             /\ Names(reminders'[k].relationships)
                                  = Names(reminders[k].relationships)
                                      \cup Names(lastOp'.args.peopleInvolved)
                        ELSE reminders'[k].relationships = reminders[k].relationships]_vars

MergedFields == {"text", "dueDate", "assignedTo", "relationships", "isCompleted"}

\* the existing task of the call with the returned updates applied
MergedTask == Spread(pin.existingTask, pout.updates)

\* one of the field rules asks for a change of the existing task
FieldRuleFires(existingTask, newData) ==
    \/ Len(newData.taskName) > Len(existingTask.text)
    \/ /\ newData.dateToPerform # <<>>
       /\ newData.dateToPerform # existingTask.dueDate
       /\ \/ existingTask.dueDate = <<>>
          \/ TimeOfDay(existingTask.dueDate) => TimeOfDay(newData.dateToPerform)
    \/ newData.assignedTo # <<>> /\ newData.assignedTo # existingTask.assignedTo
    \/ ~(Names(newData.peopleInvolved) \subseteq Names(existingTask.relationships))
    \/ existingTask.isCompleted

\* C24: mergeTaskData(E, N).shouldUpdate is true exactly when E with the returned
\* updates applied differs from E in text, dueDate, assignedTo, relationships or
\* isCompleted; when the two scores are equal the field rules are still
\* evaluated, so that shouldUpdate is then true exactly when one of them fires.
C24_ShouldUpdateIffChanged ==
    MergeDone =>
        /\ pout.shouldUpdate <=> \E f \in MergedFields : MergedTask[f] # pin.existingTask[f]
        /\ NewScore(pin.newData) = ExistingScore(pin.existingTask)
              => (pout.shouldUpdate <=> FieldRuleFires(pin.existingTask, pin.newData))

\* two scores that are equal and a merge that replaces the date all the same
C24_Witness ==
    /\ MergeDone
    /\ NewScore(pin.newData) = ExistingScore(pin.existingTask)
    /\ pout.shouldUpdate
    /\ MergedTask.dueDate # pin.existingTask.dueDate
    /\ ~pin.existingTask.isCompleted

\* C25: reopening: for an existing task that is completed and incoming fields
\* that score at least as much, mergeTaskData returns shouldUpdate = true with
\* updates.isCompleted = false, so that the merged task is not completed.
C25_Reopening ==
    (MergeKept /\ pin.existingTask.isCompleted)
        => /\ pout.shouldUpdate
           /\ "isCompleted" \in DOMAIN pout.updates
           /\ \A f \in DOMAIN pout.updates : f = "isCompleted" => pout.updates[f] = FALSE
           /\ ~MergedTask.isCompleted

\* a completed task and fields that change nothing else: the merge reopens it
C25_Witness ==
    /\ MergeKept
    /\ pin.existingTask.isCompleted
    /\ DOMAIN pout.updates = {"isCompleted"}
    /\ pout.shouldUpdate

SeemsDone == pin.kind = "seems" /\ pout # NoInput

\* one of the indicator tokens occurs in the message, lower-cased and trimmed
HoldsIndicator(message) ==
    \E indicator \in dateIndicators : Includes(Trim(ToLowerCase(message)), indicator)

\* the message, lower-cased and trimmed, holds DD/MM/YYYY, DD-MM-YYYY,
\* YYYY-MM-DD, 'D de <word>' or HH:MM
DateShaped(message) ==
    \E s \in {Trim(ToLowerCase(message))} :
        \/ MatchesDayMonthYear(s, "/")
        \/ MatchesDayMonthYear(s, "-")
        \/ MatchesIsoDate(s)
        \/ MatchesDayOfMonth(s)
        \/ HasClockTime(s)

LooksLikeDate(message) ==
    (Len(message) < 50 /\ HoldsIndicator(message)) \/ DateShaped(message)

\* C26: seemsLikeDateResponse(message) is true exactly when the message is
\* shorter than 50 characters and holds an indicator token, or the message has
\* the shape of a date, whatever its length and whether or not it holds an
\* indicator.
C26_DateResponse ==
    SeemsDone =>
        /\ pout.validation <=> LooksLikeDate(pin.message)
        /\ pout.operations <=> LooksLikeDate(pin.message)

\* the matcher's criterion between two tasks: equal item types and a text
\* similarity of 0.85, or of 0.70 with equal assignees
SimilarTasks(a, b) ==
    /\ ToLowerCase(a.itemType) = ToLowerCase(b.itemType)
    /\ \E similarity \in {calculateTextSimilarity(a.text, b.text)} :
          \/ SimGE(similarity, DefaultThreshold)
          \/ /\ ToLowerCase(a.assignedTo) = ToLowerCase(b.assignedTo)
             /\ SimGE(similarity, AssigneeThreshold)

\* a step that appended a task to the collection
Created == CalledCreateOrUpdate /\ Len(reminders') = Len(reminders) + 1

\* C27, as first stated: in every state reached from the empty collection by
\* create-or-update calls and completion toggles, no two distinct tasks that are
\* not completed are similar to each other under the matcher's criterion.
C27_NoSimilarOpenTasks ==
    \A i, j \in 1..Len(reminders) :
        (i # j /\ ~reminders[i].isCompleted /\ ~reminders[j].isCompleted)
            => ~SimilarTasks(reminders[i], reminders[j])

\* C27, amended: a task that a create-or-update call appends is, right after
\* the call, similar under the matcher's criterion to no other task of the
\* collection that is not completed.
C27_CreatedIsNotSimilar ==
    [][Created
          => \A i \in 1..Len(reminders) :
                ~reminders'[i].isCompleted
                    => ~SimilarTasks(reminders'[Len(reminders')], reminders'[i])]_vars

\* a second task created next to a task that is not completed and that is
\* close to it in text, of the same type, with another assignee
C27_Witness ==
    /\ lastOp.op = "processTaskWithRelationships"
    /\ lastOp.result.action = "created"
    /\ Len(reminders) = 2
    /\ ~reminders[1].isCompleted
    /\ reminders[2].text = lastOp.args.taskName
    /\ SimGE(calculateTextSimilarity(reminders[1].text, reminders[2].text), AssigneeThreshold)
    /\ ~SimilarTasks(reminders[1], reminders[2])

\* a step that calls the create-or-update operation with the fields of the
\* call before it
Resubmitted ==
    /\ lastOp.op \in {"processTaskWithRelationships", "addTaskWithRelationships"}
    /\ CalledCreateOrUpdate
    /\ lastOp'.args = lastOp.args

\* C28: resubmission is idempotent: a create-or-update call with the fields of
\* the call right before it returns kept_existing and leaves the task
\* collection as the first call left it.
C28_ResubmissionIdempotent ==
    [][Resubmitted
          => /\ lastOp'.result.action = "kept_existing"
             /\ reminders' = reminders]_vars

\* the fields of a task no merge may touch
FrameFields == {"id", "listId", "itemType", "isFlagged", "notes"}

\* C29: a merge never loses information and touches nothing else: across a
\* create-or-update call that matches task T, the text of T does not get
\* shorter, a non-empty dueDate and a non-empty assignedTo stay non-empty, every
\* name of T.relationships is still there, the id, position, listId, itemType,
\* isFlagged and notes of T are unchanged, and so is every other task.
C29_MergeKeepsInformation ==
    [][CalledCreateOrUpdate
          => \A match \in {MatchBefore} :
                match.task # Null
                  => \A k \in {match.index + 1} :
                        /\ Len(reminders') = Len(reminders)
                        /\ Len(reminders'[k].text) >= Len(reminders[k].text)
                        /\ reminders[k].dueDate # <<>> => reminders'[k].dueDate # <<>>
                        /\ reminders[k].assignedTo # <<>> => reminders'[k].assignedTo # <<>>
                        /\ Names(reminders[k].relationships)
                              \subseteq Names(reminders'[k].relationships)
                        /\ \A f \in FrameFields : reminders'[k][f] = reminders[k][f]
                        /\ \A i \in 1..Len(reminders) :
                              i # k => reminders'[i] = reminders[i]]_vars

\* a merge into the second of two tasks that sets its date and keeps its
\* text, the longer of the two
C29_Witness ==
    /\ lastOp.op = "processTaskWithRelationships"
    /\ lastOp.result.action = "updated"
    /\ Len(reminders) = 2
    /\ reminders[2].text = nBuyMilkLoud
    /\ lastOp.args.taskName = nBuyMilk
    /\ reminders[2].dueDate = dDayTime
    /\ reminders[2].assignedTo = pBob

\* the item types that require a date
DatedTypes == {sTask, sProject}

\* C30: in every state the chat flow reaches from the empty collection (submit,
\* extraction response, date reply to a pending task, cancel, completion
\* toggle), every task whose itemType is task or project, whatever its case,
\* has a non-empty dueDate: none is created without a date and no merge empties
\* the date of one.
C30_DatedTasks ==
    \A i \in 1..Len(reminders) :
        ToLowerCase(reminders[i].itemType) \in DatedTypes => reminders[i].dueDate # <<>>

\* a task whose date was asked for and given is merged into a task that has
\* one: the date of the task stays
C30_Witness ==
    /\ lastOp.op = "addTaskWithRelationships"
    /\ lastOp.args.dateToPerform = mHoy
    /\ lastOp.result.action = "updated"
    /\ Len(reminders) = 1
    /\ reminders[1].itemType = sTaskCap
    /\ reminders[1].dueDate = dDayTime
    /\ reminders[1].isCompleted = FALSE

=============================================================================
